---- MODULE Spec2Model ----
(***************************************************************************)
(* cn5-lite: strategy adapter (T+1 settlement locks, state save/restore),  *)
(* backtest engine (ledger, cost model), 7-layer risk validator and the    *)
(* AI trading manager, as state machines translated from src/app/services. *)
(*                                                                         *)
(* Dates are integers 1..MaxDate (ISO date strings compare the same way);  *)
(* 0 stands for Python's None date.  Money is kept in fixed point:         *)
(* MoneyScale units per yuan.                                              *)
(***************************************************************************)
EXTENDS Integers, Sequences, FiniteSets, TLC

VARIABLES
    t1_locks,          \* StrategyAdapter.t1_locks: symbol -> [amount, lock_date]
    current_date,      \* StrategyAdapter.current_date (0 = None)
    attrs,             \* strategy_instance.__dict__ of the adapter's strategy
    last,              \* the last process_bar call: its bar, signal and outcome
    bought,            \* history: <<symbol, date>> of every buy order returned so far
    calls,             \* number of process_bar calls made so far
    cash,              \* BacktestEngine.cash
    positions,         \* BacktestEngine.positions: symbol -> amount
    trades,            \* BacktestEngine.trades (the trade log)
    portfolio_values,  \* BacktestEngine.portfolio_values
    enable_china_rules,\* BacktestEngine.enable_china_rules
    pc,                \* where BacktestEngine.run stands
    idx,               \* number of rows of the data frame consumed by run
    cash_log,          \* history: cash just before each trade of the log was made
    row,               \* the bar built from the row run consumed last
    second_run,        \* run has been called again on the same engine
    first_run,         \* the rows the first run was given and the ledger it left
    self_initial_cash, \* BacktestEngine.initial_cash
    gate_passed,       \* history: orders RiskValidator.validate has passed
    current_account_value, \* RiskValidator.current_account_value
    daily_start_value,     \* RiskValidator.daily_start_value
    strategy_capitals,     \* RiskValidator.strategy_capitals: strategy_id -> capital
    prev_close_prices,     \* RiskValidator.prev_close_prices: symbol -> price
    trade_timestamps,      \* RiskValidator.trade_timestamps
    blacklist,             \* RiskValidator.blacklist
    now,                   \* datetime.now(), in half hours
    risk_last,             \* the last validate call: its signal and result
    code,              \* the strategy source both adapters were built from
    dataA,             \* the rows fed to the first adapter
    dataB,             \* the rows fed to the second adapter
    runA,              \* first adapter: rows consumed, outcomes, bars handed to
                       \* on_bar, attributes after each bar
    runB,              \* the same for the second adapter
    t1_locks2,         \* second StrategyAdapter: t1_locks
    current_date2,     \* second StrategyAdapter: current_date
    attrs2,            \* second StrategyAdapter: strategy_instance.__dict__
    shared_locks,      \* both adapters' t1_locks name the same dict object
    restored_at,       \* rows the first adapter had consumed at get_state (-1: never)
    sandbox,           \* StrategySandbox: the execute call in progress or just ended
    checker,           \* CodeSecurityChecker: the last check call and its report
    manager,           \* AITradingManager: configuration, trades, last execute_trade
    generator,         \* AIStrategyGenerator: the generate call in progress or ended
    shadow             \* ShadowManager: accounts, next_account_id, the last call

adapterVars == <<t1_locks, current_date, attrs, last, bought, calls>>
engineVars == <<cash, positions, trades, portfolio_values, enable_china_rules,
                pc, idx, cash_log, row, second_run, first_run, self_initial_cash>>
riskVars == <<current_account_value, daily_start_value, strategy_capitals,
              prev_close_prices, trade_timestamps, blacklist, now, risk_last>>
pairVars == <<code, dataA, dataB, runA, runB, t1_locks2, current_date2, attrs2,
              shared_locks, restored_at>>
aiVars == <<sandbox, checker>>
mgrVars == <<manager, generator, shadow>>
vars == <<adapterVars, engineVars, gate_passed, riskVars, pairVars, aiVars, mgrVars>>

----------------------------------------------------------------------------
(* Bounds of the model *)

MaxDate == 3
MaxCalls == 3
MaxBars == 2
MaxTime == 2
MaxTrades == 2
MaxRows == 3

(* Program constants *)

LotSize == 100

----------------------------------------------------------------------------
(* Values *)

Dates == 1..MaxDate
NoDate == 0

Symbols == {"X", "Y"}

\* signal.get('symbol', '') : a signal without a symbol yields the empty string
NoSymbol == ""

\* signal.get('amount', 0) : a signal without an amount yields 0
NoAmount == <<>>

Amounts == {-100, 0, 50, 100, 150, 200}

Bar(d, c, v) == [date |-> d, close |-> c, volume |-> v]

Max(a, b) == IF a >= b THEN a ELSE b

\* What a strategy's on_bar can do: return None, return a value without an
\* 'action' key, return a dict with an 'action', or raise.
\* `value` is what a dict without 'action' carries (e.g. {'max_seen': 12}).
Signal(k, a, s, n, v) ==
    [kind |-> k, action |-> a, symbol |-> s, amount |-> n, value |-> v]

NoneSignal == Signal("none", "", NoSymbol, NoAmount, 0)
InfoValue(v) == Signal("info", "", NoSymbol, NoAmount, v)
InfoSignal == InfoValue(0)
RaiseSignal == Signal("raise", "", NoSymbol, NoAmount, 0)
ActionSignal(a, s, n) == Signal("action", a, s, n, 0)

SignalAmounts == {<<n>> : n \in Amounts} \cup {NoAmount}

Signals ==
    {NoneSignal, InfoSignal, RaiseSignal}
    \cup {ActionSignal(a, s, n) : a \in {"buy", "sell", "hold"},
                                  s \in Symbols,
                                  n \in SignalAmounts}

NoOrder == [action |-> "", symbol |-> NoSymbol, amount |-> 0, price |-> 0,
            strategy_id |-> 0, date |-> NoDate]

\* Outcome of a call: kind is "none" (returned None), "info" (the signal
\* returned unchanged), "order", or the exception raised.
Outcome(k, o) == [kind |-> k, order |-> o, value |-> 0]
InfoOutcome(v) == [kind |-> "info", order |-> NoOrder, value |-> v]

----------------------------------------------------------------------------
(* StrategyAdapter *)

\* a purge that forgets to delete (mutant of unlock_t1)
unlock_t1_keeps(locks, date) == locks

\* a purge that spares the locks of the day before (mutant of unlock_t1)
unlock_t1_spares_yesterday(locks, date) ==
    [s \in {x \in DOMAIN locks : ~(locks[x].lock_date < date - 1)} |-> locks[s]]

\* _unlock_t1: delete every lock whose lock_date < current_date
unlock_t1(locks, date) ==
    [s \in {x \in DOMAIN locks : ~(locks[x].lock_date < date)} |-> locks[s]]

\* _update_current_date: the lock table after the date update (the date itself
\* is always overwritten).  old_date None (0) is falsy: no purge.
update_current_date(locks, old_date, date) ==
    IF old_date # NoDate /\ old_date # date THEN unlock_t1(locks, date) ELSE locks

\* _validate_and_build_order: the order built from a signal that has an
\* 'action' key; None for an unknown action; ValueError for a bad buy lot.
build_order(signal, bar, strategy_id, date) ==
    [action |-> signal.action,
     symbol |-> signal.symbol,
     amount |-> IF signal.amount = NoAmount THEN 0 ELSE signal.amount[1],
     price |-> bar.close,
     strategy_id |-> strategy_id,
     date |-> date]

\* a lot check that accepts every amount (mutant of lot_ok)
lot_ok_any(amount) == TRUE

\* `amount % 100 != 0` raises; Python's % of a negative amount is non-negative
lot_ok(amount) == amount % LotSize = 0

validate_and_build_order(signal, bar, strategy_id, date) ==
    IF signal.action \notin {"buy", "sell"}
    THEN Outcome("none", NoOrder)
    ELSE LET order == build_order(signal, bar, strategy_id, date) IN
         IF signal.action = "buy" /\ ~lot_ok(order.amount)
         THEN Outcome("ValueError", NoOrder)
         ELSE Outcome("order", order)

\* _add_t1_lock: accumulate on an existing lock (its lock_date is kept), else
\* create one dated with the order's date
add_t1_lock(locks, order) ==
    IF order.symbol \in DOMAIN locks
    THEN [locks EXCEPT ![order.symbol].amount = @ + order.amount]
    ELSE [s \in DOMAIN locks \cup {order.symbol} |->
            IF s = order.symbol
            THEN [amount |-> order.amount, lock_date |-> order.date]
            ELSE locks[s]]

\* a sellable check that lets a sell through when it exceeds the locked
\* amount (mutant of check_t1_sellable)
check_t1_sellable_by_amount(locks, date, order) ==
    IF order.symbol \notin DOMAIN locks THEN TRUE
    ELSE IF locks[order.symbol].lock_date < date THEN TRUE
    ELSE IF locks[order.symbol].lock_date = date
    THEN order.amount > locks[order.symbol].amount
    ELSE TRUE

\* _check_t1_sellable
check_t1_sellable(locks, date, order) ==
    IF order.symbol \notin DOMAIN locks THEN TRUE
    ELSE IF locks[order.symbol].lock_date < date THEN TRUE
    ELSE IF locks[order.symbol].lock_date = date THEN FALSE
    ELSE TRUE

\* is_locked
is_locked(locks, date, symbol) ==
    symbol \in DOMAIN locks /\ locks[symbol].lock_date = date

\* process_bar that locks a buy before its lot is validated (mutant of
\* process_signal)
process_signal_lock_first(locks, date, strategy_id, bar, signal) ==
    IF signal.kind = "raise"
    THEN [out |-> Outcome("ExecutionError", NoOrder), locks |-> locks]
    ELSE IF signal.kind = "none"
    THEN [out |-> Outcome("none", NoOrder), locks |-> locks]
    ELSE IF signal.kind = "info"
    THEN [out |-> InfoOutcome(signal.value), locks |-> locks]
    ELSE LET built == validate_and_build_order(signal, bar, strategy_id, date) IN
         IF signal.action = "buy"
         THEN [out |-> built,
               locks |-> add_t1_lock(locks, build_order(signal, bar, strategy_id, date))]
         ELSE IF built.kind # "order"
         THEN [out |-> built, locks |-> locks]
         ELSE IF ~check_t1_sellable(locks, date, built.order)
         THEN [out |-> Outcome("none", NoOrder), locks |-> locks]
         ELSE [out |-> built, locks |-> locks]

\* process_bar after the strategy returned `signal` for `bar`: the outcome and
\* the lock table left behind.  `locks` is the table after the date update.
process_signal(locks, date, strategy_id, bar, signal) ==
    IF signal.kind = "raise"
    THEN [out |-> Outcome("ExecutionError", NoOrder), locks |-> locks]
    ELSE IF signal.kind = "none"
    THEN [out |-> Outcome("none", NoOrder), locks |-> locks]
    ELSE IF signal.kind = "info"
    THEN [out |-> InfoOutcome(signal.value), locks |-> locks]
    ELSE LET built == validate_and_build_order(signal, bar, strategy_id, date) IN
         IF built.kind # "order"
         THEN [out |-> built, locks |-> locks]
         ELSE IF built.order.action = "buy"
         THEN [out |-> built, locks |-> add_t1_lock(locks, built.order)]
         ELSE IF ~check_t1_sellable(locks, date, built.order)
         THEN [out |-> Outcome("none", NoOrder), locks |-> locks]
         ELSE [out |-> built, locks |-> locks]

\* StrategyAdapter.process_bar on an adapter whose strategy answers `signal`
process_bar(locks, old_date, strategy_id, bar, signal) ==
    process_signal(update_current_date(locks, old_date, bar.date),
                   bar.date, strategy_id, bar, signal)

----------------------------------------------------------------------------
(* StandardStrategy: the strategy instance and its saved state.  Strategy   *)
(* sources are arbitrary code; four deterministic ones stand for them.      *)

\* attribute values: an int, a set (not JSON serialisable) or the str() of one
IntV(n) == [t |-> "int", n |-> n, s |-> {}]
SetV(S) == [t |-> "set", n |-> 0, s |-> S]
StrV(S) == [t |-> "str", n |-> 0, s |-> S]

\* "Counter": T1ViolateStrategy of the unit tests (buy on the first bar, sell
\*   on every later one), its counter in self.bar_count
\* "MaxSeen": NoFutureStrategy of the unit tests, returns {'max_seen': ...}
\* "PrivateCounter": Counter with its counter in self._bar_count
\* "SeenSet": keeps the closes seen in a set, buys on a new close, else sells
Codes == {"Counter", "MaxSeen", "PrivateCounter", "SeenSet"}

\* key.startswith('_')
is_private(key) == key \in {"_bar_count"}

\* json.dumps(value) succeeds
json_serialisable(value) == value.t \in {"int", "str"}

\* strategy_class(): the attributes __init__ sets
new_instance(c) ==
    CASE c = "Counter" -> [bar_count |-> IntV(0)]
      [] c = "MaxSeen" -> [max_seen |-> IntV(0)]
      [] c = "PrivateCounter" -> [_bar_count |-> IntV(0)]
      [] c = "SeenSet" -> [seen |-> SetV({})]

CounterSignal(n) ==
    IF n = 1 THEN ActionSignal("buy", "X", <<100>>) ELSE ActionSignal("sell", "X", <<100>>)

\* strategy_instance.on_bar(bar): the attributes afterwards and what it returns
\* (RaiseSignal: it raised, which StandardStrategy.on_bar turns into
\* ExecutionError)
on_bar(c, a, bar) ==
    CASE c = "Counter" ->
           [attrs |-> [a EXCEPT !.bar_count = IntV(@.n + 1)],
            signal |-> CounterSignal(a.bar_count.n + 1)]
      [] c = "MaxSeen" ->
           LET m == Max(a.max_seen.n, bar.close) IN
           [attrs |-> [a EXCEPT !.max_seen = IntV(m)], signal |-> InfoValue(m)]
      [] c = "PrivateCounter" ->
           [attrs |-> [a EXCEPT !._bar_count = IntV(@.n + 1)],
            signal |-> CounterSignal(a._bar_count.n + 1)]
      [] c = "SeenSet" ->
           IF a.seen.t # "set"
           THEN [attrs |-> a, signal |-> RaiseSignal]
           ELSE [attrs |-> [a EXCEPT !.seen = SetV(@.s \cup {bar.close})],
                 signal |-> IF bar.close \in a.seen.s
                            THEN ActionSignal("sell", "X", <<100>>)
                            ELSE ActionSignal("buy", "X", <<100>>)]

\* StandardStrategy.get_state: the non-private attributes, those json.dumps
\* refuses replaced by their str()
strategy_get_state(a) ==
    [k \in {x \in DOMAIN a : ~is_private(x)} |->
        IF json_serialisable(a[k]) THEN a[k] ELSE StrV(a[k].s)]

\* StandardStrategy.restore_state: setattr for every saved key
strategy_restore_state(a, state) ==
    [k \in DOMAIN a \cup DOMAIN state |-> IF k \in DOMAIN state THEN state[k] ELSE a[k]]

\* StrategyAdapter.get_state (t1_locks is the adapter's own dict object)
adapter_get_state(locks, date, a) ==
    [strategy_state |-> strategy_get_state(a), t1_locks |-> locks,
     current_date |-> date]

\* StrategyAdapter.restore_state on a freshly constructed adapter
adapter_restore_state(fresh_attrs, state) ==
    [attrs |-> strategy_restore_state(fresh_attrs, state.strategy_state),
     t1_locks |-> state.t1_locks,
     current_date |-> state.current_date]

\* the row handed to process_bar by a loop that looks one row ahead (mutant
\* of row_bar)
row_bar_ahead(data, i) == data[IF i < Len(data) THEN i + 1 ELSE i]

\* the bar built from row i of the data (for idx, row in data.iterrows())
row_bar(data, i) == data[i]

\* process_bar of an adapter whose strategy instance has attributes `a`
adapter_step(c, locks, date, a, bar) ==
    LET s == on_bar(c, a, bar)
        r == process_bar(locks, date, 1, bar, s.signal)
    IN [locks |-> r.locks, out |-> r.out, attrs |-> s.attrs]

----------------------------------------------------------------------------
(* BacktestEngine: cost model *)

\* Monetary floats are kept in units of 1/MoneyScale yuan
MoneyScale == 10000

\* constructor parameters (defaults of BacktestEngine.__init__), as fractions
commission_rate_num == 3
commission_rate_den == 10000
stamp_tax_rate_num == 1
stamp_tax_rate_den == 1000
slippage_rate_num == 1
slippage_rate_den == 1000
min_commission == 5 * MoneyScale

\* initial_cash: a constructor argument (30000 yuan here)
initial_cash == 30000 * MoneyScale

\* _apply_slippage
apply_slippage(price, is_buy) ==
    IF is_buy
    THEN (price * (slippage_rate_den + slippage_rate_num)) \div slippage_rate_den
    ELSE (price * (slippage_rate_den - slippage_rate_num)) \div slippage_rate_den

\* _calculate_commission
calculate_commission(amount) ==
    Max((amount * commission_rate_num) \div commission_rate_den, min_commission)

\* _calculate_stamp_tax
calculate_stamp_tax(amount) == (amount * stamp_tax_rate_num) \div stamp_tax_rate_den

\* _validate_buy_amount
validate_buy_amount(amount) == amount % LotSize = 0

\* no bar counts as suspended (mutant of is_suspended)
is_suspended_never(bar) == FALSE

\* _is_suspended
is_suspended(bar) == bar.volume = 0

PositionOf(pos, symbol) == IF symbol \in DOMAIN pos THEN pos[symbol] ELSE 0

SetPosition(pos, symbol, amount) ==
    [s \in DOMAIN pos \cup {symbol} |-> IF s = symbol THEN amount ELSE pos[s]]

\* the most recent buy trade of the symbol in the log (0 when there is none)
LastBuyIndex(tr, symbol) ==
    LET hits == {i \in 1..Len(tr) : tr[i].action = "buy" /\ tr[i].symbol = symbol}
    IN IF hits = {} THEN 0 ELSE CHOOSE i \in hits : \A j \in hits : j <= i

Ledger(c, pos, tr, done) == [cash |-> c, positions |-> pos, trades |-> tr, executed |-> done]

\* _execute_trade, buy branch
execute_buy(c, pos, tr, amount, price, bar, symbol, rules) ==
    IF rules /\ ~validate_buy_amount(amount)
    THEN Ledger(c, pos, tr, FALSE)
    ELSE LET cost == price * amount
             commission == calculate_commission(cost)
             total_cost == cost + commission
         IN IF total_cost > c
            THEN Ledger(c, pos, tr, FALSE)
            ELSE Ledger(c - total_cost,
                        SetPosition(pos, symbol, PositionOf(pos, symbol) + amount),
                        Append(tr, [date |-> bar.date, action |-> "buy",
                                    symbol |-> symbol, price |-> price,
                                    amount |-> amount, commission |-> commission,
                                    tax |-> 0, cost |-> total_cost,
                                    revenue |-> 0, profit |-> 0]),
                        TRUE)

\* a sell that credits the gross revenue: commission and stamp duty are
\* recorded in the trade but not taken from cash (mutant of execute_sell)
execute_sell_gross(c, pos, tr, amount, price, bar, symbol, rules) ==
    IF symbol \notin DOMAIN pos \/ pos[symbol] < amount
    THEN Ledger(c, pos, tr, FALSE)
    ELSE LET revenue == price * amount
             commission == calculate_commission(revenue)
             tax == IF rules THEN calculate_stamp_tax(revenue) ELSE 0
         IN Ledger(c + revenue,
                   SetPosition(pos, symbol, pos[symbol] - amount),
                   Append(tr, [date |-> bar.date, action |-> "sell",
                               symbol |-> symbol, price |-> price,
                               amount |-> amount, commission |-> commission,
                               tax |-> tax, cost |-> 0,
                               revenue |-> revenue - commission - tax,
                               profit |-> 0]),
                   TRUE)

\* _execute_trade, sell branch
execute_sell(c, pos, tr, amount, price, bar, symbol, rules) ==
    IF symbol \notin DOMAIN pos \/ pos[symbol] < amount
    THEN Ledger(c, pos, tr, FALSE)
    ELSE LET revenue == price * amount
             commission == calculate_commission(revenue)
             tax == IF rules THEN calculate_stamp_tax(revenue) ELSE 0
             total_cost == commission + tax
             net_revenue == revenue - total_cost
             b == LastBuyIndex(tr, symbol)
             profit == IF b = 0 THEN 0
                       ELSE (price - tr[b].price) * amount - total_cost
         IN Ledger(c + net_revenue,
                   SetPosition(pos, symbol, pos[symbol] - amount),
                   Append(tr, [date |-> bar.date, action |-> "sell",
                               symbol |-> symbol, price |-> price,
                               amount |-> amount, commission |-> commission,
                               tax |-> tax, cost |-> 0,
                               revenue |-> net_revenue, profit |-> profit]),
                   TRUE)

\* _execute_trade: the ledger after the call (executed tells whether a trade
\* was appended).  The price is the bar's close, not the order's price.
execute_trade(c, pos, tr, order, bar, symbol, rules) ==
    LET close == bar.close * MoneyScale
        price == IF rules THEN apply_slippage(close, order.action = "buy") ELSE close
    IN IF order.action = "buy"
       THEN execute_buy(c, pos, tr, order.amount, price, bar, symbol, rules)
       ELSE IF order.action = "sell"
       THEN execute_sell(c, pos, tr, order.amount, price, bar, symbol, rules)
       ELSE Ledger(c, pos, tr, FALSE)

\* _calculate_portfolio_value
calculate_portfolio_value(c, pos, close) ==
    LET RECURSIVE Sum(_)
        Sum(S) == IF S = {} THEN 0
                  ELSE LET s == CHOOSE x \in S : TRUE
                       IN pos[s] * close * MoneyScale + Sum(S \ {s})
    IN c + Sum(DOMAIN pos)

----------------------------------------------------------------------------
(* RiskValidator *)

\* constructor arguments: total_capital as AITradingManager passes it, the
\* rates in percent (defaults of RiskValidator.__init__)
total_capital == 100000
max_total_loss_rate == 10
max_daily_loss_rate == 5
max_strategy_capital_rate == 30
max_single_trade_rate == 20
\* max_trades_per_hour: a constructor argument (2 here, 20 by default)
max_trades_per_hour == 2

\* one hour, in the unit of `now`
Hour == 2

RiskSymbols == {"SH600000", "SH600002", "ST600001", "SZ300001"}

\* `keyword in symbol` for a keyword of st_keywords, over RiskSymbols
has_st_keyword(symbol) == symbol \in {"ST600001"}

\* _is_blacklisted
is_blacklisted(bl, symbol) == symbol \in bl \/ has_st_keyword(symbol)

\* _get_stock_type
get_stock_type(symbol) ==
    IF has_st_keyword(symbol) THEN "st"
    ELSE IF symbol \in {"SH688001"} THEN "kcb"
    ELSE IF symbol \in {"SZ300001"} THEN "cyb"
    ELSE "normal"

\* limit_rates, in percent
limit_rate(stock_type) ==
    IF stock_type = "st" THEN 5
    ELSE IF stock_type \in {"cyb", "kcb"} THEN 20
    ELSE 10

\* _count_recent_trades: timestamps later than now - 1 hour
count_recent_trades(ts, t) == Cardinality({i \in DOMAIN ts : ts[i] > t - Hour})

\* a limit check that ignores the side of the trade (mutant of
\* check_limit_price)
check_limit_price_undirected(symbol, price, prev_close, action) ==
    IF prev_close = 0 THEN ""
    ELSE LET rate == limit_rate(get_stock_type(symbol)) IN
         IF (price - prev_close) * 1000 >= (rate * 10 - 1) * prev_close
         THEN "limit_up"
         ELSE IF (price - prev_close) * 1000 <= (1 - rate * 10) * prev_close
         THEN "limit_down"
         ELSE ""

\* _check_limit_price: "" when allowed, else the reason.
\* price_change_rate >= limit_rate - 0.001 and <= -limit_rate + 0.001,
\* multiplied out by 1000 * prev_close
check_limit_price(symbol, price, prev_close, action) ==
    IF prev_close = 0 THEN ""
    ELSE LET rate == limit_rate(get_stock_type(symbol)) IN
         IF (price - prev_close) * 1000 >= (rate * 10 - 1) * prev_close
            /\ action = "buy"
         THEN "limit_up"
         ELSE IF (price - prev_close) * 1000 <= (1 - rate * 10) * prev_close
                 /\ action = "sell"
         THEN "limit_down"
         ELSE ""

\* the state validate reads
RiskState(cav, dsv, caps, prevs, ts, bl, t) ==
    [current_account_value |-> cav, daily_start_value |-> dsv,
     strategy_capitals |-> caps, prev_close_prices |-> prevs,
     trade_timestamps |-> ts, blacklist |-> bl, now |-> t]

TradeValue(signal) == signal.amount * signal.price

\* a stop-loss measured against the day's start value instead of the total
\* capital (mutant of total_loss_exceeded)
total_loss_exceeded_vs_start(st) ==
    (st.daily_start_value - st.current_account_value) * 100
        > max_total_loss_rate * st.daily_start_value

\* the veto condition of each layer, as validate writes it
total_loss_exceeded(st) ==
    (total_capital - st.current_account_value) * 100
        > max_total_loss_rate * total_capital

daily_loss_exceeded(st) ==
    (st.daily_start_value - st.current_account_value) * 100
        > max_daily_loss_rate * st.daily_start_value

NewCapital(st, signal) ==
    (IF signal.strategy_id \in DOMAIN st.strategy_capitals
     THEN st.strategy_capitals[signal.strategy_id] ELSE 0) + TradeValue(signal)

strategy_capital_exceeded(st, signal) ==
    /\ signal.action = "buy"
    /\ NewCapital(st, signal) * 100 > max_strategy_capital_rate * total_capital

single_trade_exceeded(signal) ==
    TradeValue(signal) * 100 > max_single_trade_rate * total_capital

frequency_exceeded(st) ==
    count_recent_trades(st.trade_timestamps, st.now) >= max_trades_per_hour

limit_reason(st, signal) ==
    IF signal.symbol \in DOMAIN st.prev_close_prices
    THEN check_limit_price(signal.symbol, signal.price,
                           st.prev_close_prices[signal.symbol], signal.action)
    ELSE ""

\* the advisory score accumulated by a passing evaluation
risk_score_of(st, signal) ==
    (IF (total_capital - st.current_account_value) * 1000
          > max_total_loss_rate * 5 * total_capital THEN 20 ELSE 0)
    + (IF (st.daily_start_value - st.current_account_value) * 1000
          > max_daily_loss_rate * 5 * st.daily_start_value THEN 15 ELSE 0)
    + (IF signal.action = "buy"
          /\ NewCapital(st, signal) * 1000 > max_strategy_capital_rate * 7 * total_capital
       THEN 15 ELSE 0)
    + (IF TradeValue(signal) * 1000 > max_single_trade_rate * 7 * total_capital THEN 20
       ELSE IF TradeValue(signal) * 1000 > max_single_trade_rate * 5 * total_capital
       THEN 10 ELSE 0)
    + (IF count_recent_trades(st.trade_timestamps, st.now) * 10
          > max_trades_per_hour * 7 THEN 15 ELSE 0)

Veto(layer, reason) ==
    [passed |-> FALSE, layer |-> layer, reason |-> reason, risk_score |-> 100]

\* validate with layer 5 moved in front of layer 2 (mutant of validate)
validate_size_first(st, signal) ==
    IF total_loss_exceeded(st) THEN Veto(1, "total_loss")
    ELSE IF single_trade_exceeded(signal) THEN Veto(5, "single_trade")
    ELSE IF is_blacklisted(st.blacklist, signal.symbol) THEN Veto(2, "blacklist")
    ELSE IF daily_loss_exceeded(st) THEN Veto(3, "daily_loss")
    ELSE IF strategy_capital_exceeded(st, signal) THEN Veto(4, "strategy_capital")
    ELSE IF frequency_exceeded(st) THEN Veto(6, "frequency")
    ELSE IF limit_reason(st, signal) # "" THEN Veto(7, limit_reason(st, signal))
    ELSE [passed |-> TRUE, layer |-> 0, reason |-> "pass",
          risk_score |-> risk_score_of(st, signal)]

\* validate with the score acting as an eighth layer (mutant of validate)
validate_score_veto(st, signal) ==
    IF total_loss_exceeded(st) THEN Veto(1, "total_loss")
    ELSE IF is_blacklisted(st.blacklist, signal.symbol) THEN Veto(2, "blacklist")
    ELSE IF daily_loss_exceeded(st) THEN Veto(3, "daily_loss")
    ELSE IF strategy_capital_exceeded(st, signal) THEN Veto(4, "strategy_capital")
    ELSE IF single_trade_exceeded(signal) THEN Veto(5, "single_trade")
    ELSE IF frequency_exceeded(st) THEN Veto(6, "frequency")
    ELSE IF limit_reason(st, signal) # "" THEN Veto(7, limit_reason(st, signal))
    ELSE IF risk_score_of(st, signal) >= 50 THEN Veto(0, "risk_score")
    ELSE [passed |-> TRUE, layer |-> 0, reason |-> "pass",
          risk_score |-> risk_score_of(st, signal)]

\* RiskValidator.validate
validate(st, signal) ==
    IF total_loss_exceeded(st) THEN Veto(1, "total_loss")
    ELSE IF is_blacklisted(st.blacklist, signal.symbol) THEN Veto(2, "blacklist")
    ELSE IF daily_loss_exceeded(st) THEN Veto(3, "daily_loss")
    ELSE IF strategy_capital_exceeded(st, signal) THEN Veto(4, "strategy_capital")
    ELSE IF single_trade_exceeded(signal) THEN Veto(5, "single_trade")
    ELSE IF frequency_exceeded(st) THEN Veto(6, "frequency")
    ELSE IF limit_reason(st, signal) # "" THEN Veto(7, limit_reason(st, signal))
    ELSE [passed |-> TRUE, layer |-> 0, reason |-> "pass",
          risk_score |-> risk_score_of(st, signal)]

\* a validate that drops the timestamps older than an hour while counting
\* them (mutant of validate_state)
validate_state_prunes(st, signal) ==
    [st EXCEPT !.trade_timestamps = SelectSeq(@, LAMBDA x : x > st.now - Hour)]

\* the validator's attributes after validate: it assigns to none of them, and
\* _count_recent_trades only reads trade_timestamps
validate_state(st, signal) == st

\* record_trade: append, then drop what is not later than now - 1 hour
record_trade(ts, timestamp, t) ==
    SelectSeq(Append(ts, timestamp), LAMBDA x : x > t - Hour)

----------------------------------------------------------------------------
(* StrategySandbox.execute.  The strategy source is arbitrary code; it is   *)
(* described by what each of its three parts does: the module body run by   *)
(* exec(code, namespace), __init__ run by strategy_class(), and the entry   *)
(* point.                                                                   *)

\* namespace['__builtins__']: the names the evaluated code can reach
SandboxBuiltins ==
    {"__build_class__", "__name__", "__import__", "range", "len", "sum", "min",
     "max", "abs", "round", "int", "float", "str", "bool", "list", "dict",
     "tuple", "set", "enumerate", "zip", "sorted", "reversed", "any", "all",
     "isinstance", "hasattr", "getattr", "object", "type", "None", "True",
     "False"}

MaxTimeout == 2

\* self.timeout, in seconds (signal.alarm(0) arms nothing)
Timeouts == 0..MaxTimeout

Behaviour(op, arg) == [op |-> op, arg |-> arg]

\* runs to its end
Ok == Behaviour("ok", "")
\* 1 / 0
Fault == Behaviour("fault", "")
\* calls a builtin by name, e.g. open('f')
UseName(n) == Behaviour("name", n)
\* import m, then uses the module
ImportUse(m) == Behaviour("import", m)
\* import builtins; raise builtins.TimeoutError('mine')
RaiseTimeout == Behaviour("raise_timeout", "")
\* [0] * 10 ** 12
Exhaust == Behaviour("exhaust", "")
\* while True: pass
Loop == Behaviour("loop", "")
\* while True:
\*     try:
\*         while True: pass
\*     except Exception: pass
LoopGuarded == Behaviour("loop_guarded", "")

Loops == {Loop, LoopGuarded}

ExecBehaviours == {Ok, Fault, ImportUse("sys"), Loop}
InitBehaviours == {Ok, Exhaust, ImportUse("os")}
CallBehaviours ==
    {Ok, Fault, UseName("open"), ImportUse("os"), ImportUse("socket"),
     ImportUse("subprocess"), ImportUse("sys"), RaiseTimeout, Exhaust, Loop,
     LoopGuarded}

Source(e, i, c, k) == [exec |-> e, init |-> i, call |-> c, has_class |-> k]

NoSource == Source(Ok, Ok, Ok, FALSE)

\* a source without a class that has the method has nothing to instantiate
Sources ==
    {Source(e, i, c, TRUE) : e \in ExecBehaviours, i \in InitBehaviours,
                             c \in CallBehaviours}
    \cup {Source(e, Ok, Ok, FALSE) : e \in ExecBehaviours}

Exception(type, msg) == [type |-> type, msg |-> msg]

NoException == Exception("", "")

\* what the host gives a module once imported: sys gives sys.exit
Capability(m) ==
    CASE m = "os" -> {"filesystem", "environment", "process"}
      [] m = "socket" -> {"network"}
      [] m = "subprocess" -> {"process"}
      [] m = "sys" -> {}
      [] m = "open" -> {"filesystem"}

\* the exception a part raises when run with the given builtins
raises(b, builtins) ==
    CASE b.op = "fault" -> Exception("ZeroDivisionError", "division by zero")
      [] b.op = "name" ->
           IF b.arg \in builtins THEN NoException
           ELSE Exception("NameError", "name is not defined")
      [] b.op = "import" ->
           IF "__import__" \notin builtins
           THEN Exception("ImportError", "__import__ not found")
           ELSE IF b.arg = "sys" THEN Exception("SystemExit", "bye")
           ELSE NoException
      [] b.op = "raise_timeout" ->
           IF "__import__" \notin builtins
           THEN Exception("ImportError", "__import__ not found")
           ELSE Exception("TimeoutError", "mine")
      [] b.op = "exhaust" -> Exception("MemoryError", "")
      [] OTHER -> NoException

\* the host facilities a part reaches when run with the given builtins
accesses(b, builtins) ==
    IF b.op = "import" /\ "__import__" \in builtins THEN Capability(b.arg)
    ELSE IF b.op = "name" /\ b.arg \in builtins /\ b.arg = "open" THEN Capability("open")
    ELSE {}

\* isinstance(e, Exception): SystemExit derives from BaseException only
is_Exception(type) == type \notin {"SystemExit", "KeyboardInterrupt"}

Finished(k, type, text, detail, seconds) ==
    [pc |-> k, type |-> type, text |-> text, detail |-> detail, seconds |-> seconds]

\* the except clauses of execute: TimeoutError, MemoryError, Exception, in
\* that order; anything else leaves execute as it is
boundary(e, timeout) ==
    IF e.type = "TimeoutError"
    THEN Finished("raised", "ExecutionError", "timeout", "", timeout)
    ELSE IF e.type = "MemoryError"
    THEN Finished("raised", "ExecutionError", "memory", "", 0)
    ELSE IF is_Exception(e.type)
    THEN Finished("raised", "ExecutionError", "failed", e.msg, 0)
    ELSE Finished("escaped", e.type, "", e.msg, 0)

\* the state of one execute call
Execution(k, src, t, alarm, phase, swallowed, accessed, exc, err) ==
    [pc |-> k, source |-> src, timeout |-> t, alarm |-> alarm, phase |-> phase,
     swallowed |-> swallowed, accessed |-> accessed, raised |-> exc,
     spin |-> FALSE,
     type |-> err.type, text |-> err.text, detail |-> err.detail,
     seconds |-> err.seconds]

NoError == Finished("", "", "", "", 0)

\* the part of the source that is running
Current(sb) ==
    CASE sb.phase = "exec" -> sb.source.exec
      [] sb.phase = "init" -> sb.source.init
      [] sb.phase = "call" -> sb.source.call

\* execute ends with exception e raised inside the try block
ends_with(sb, e, accessed) ==
    LET f == boundary(e, sb.timeout) IN
    Execution(f.pc, sb.source, sb.timeout,
              IF f.pc = "raised" THEN 0 ELSE sb.alarm,
              sb.phase, sb.swallowed, accessed, e, f)

\* the running part completes or raises
run_part(sb) ==
    LET b == Current(sb)
        e == raises(b, SandboxBuiltins)
        acc == sb.accessed \cup accesses(b, SandboxBuiltins)
    IN IF e # NoException THEN ends_with(sb, e, acc)
       ELSE IF sb.phase = "exec"
       THEN IF sb.source.has_class
            THEN [sb EXCEPT !.phase = "init", !.accessed = acc]
            ELSE ends_with(sb, Exception("ExecutionError", "no strategy class"), acc)
       ELSE IF sb.phase = "init"
       THEN [sb EXCEPT !.phase = "call", !.accessed = acc]
       ELSE [sb EXCEPT !.pc = "returned", !.alarm = 0, !.accessed = acc]

\* timeout_handler runs in the frame that is looping: TimeoutError unwinds
\* to execute, unless the loop's own except clause catches it
timeout_handler(sb) ==
    IF Current(sb) = LoopGuarded
    THEN [sb EXCEPT !.alarm = 0, !.swallowed = TRUE]
    ELSE ends_with([sb EXCEPT !.alarm = 0], Exception("TimeoutError", "alarm"),
                   sb.accessed)

----------------------------------------------------------------------------
(* CodeSecurityChecker.  A source is the sequence of its statements, each   *)
(* the AST node ast.walk meets (or text that does not parse).               *)

MaxStmts == 3

DANGEROUS_MODULES ==
    {"os", "sys", "subprocess", "shutil", "pathlib", "socket", "urllib", "http",
     "ftplib", "telnetlib", "__import__", "importlib", "pickle", "shelve",
     "ctypes", "multiprocessing", "threading"}

DANGEROUS_FUNCTIONS ==
    {"eval", "exec", "compile", "__import__", "open", "file", "input",
     "raw_input", "globals", "locals", "vars", "dir", "getattr", "setattr",
     "delattr", "hasattr"}

REQUIRED_METHODS == {"on_bar"}

Stmt(k, n) == [kind |-> k, name |-> n]

\* import os / import json / from subprocess import run / eval(x) / print(x)
\* / obj.eval(x) / class S with def on_bar / class S with def helper /
\* def on_bar at module level / if x: pass / text that is not Python
Stmts ==
    {Stmt("import", "os"), Stmt("import", "json"), Stmt("from", "subprocess"),
     Stmt("call", "eval"), Stmt("call", "print"), Stmt("attr_call", "eval"),
     Stmt("class", "on_bar"), Stmt("class", "helper"), Stmt("def", "on_bar"),
     Stmt("if", ""), Stmt("garbage", "")}

RECURSIVE StmtSeqs(_)
StmtSeqs(n) ==
    IF n = 0 THEN {<<>>}
    ELSE LET shorter == StmtSeqs(n - 1)
         IN shorter \cup {Append(q, x) : q \in {r \in shorter : Len(r) = n - 1},
                                         x \in Stmts}

\* max_complexity: a constructor argument (20 by default)
MaxComplexities == {1, 2}

\* ast.parse(code) succeeds
parses(src) == \A i \in DOMAIN src : src[i].kind # "garbage"

Names(q) == [i \in DOMAIN q |-> q[i].name]

\* _check_imports
check_imports(src) ==
    Names(SelectSeq(src, LAMBDA x :
        x.kind \in {"import", "from"} /\ x.name \in DANGEROUS_MODULES))

\* _check_function_calls: only calls whose func is a plain name
check_function_calls(src) ==
    Names(SelectSeq(src, LAMBDA x :
        x.kind = "call" /\ x.name \in DANGEROUS_FUNCTIONS))

\* _get_method_names: functions defined in a class body
get_method_names(src) == {src[i].name : i \in {j \in DOMAIN src : src[j].kind = "class"}}

\* _check_required_methods
check_required_methods(src) == REQUIRED_METHODS \ get_method_names(src)

\* calculate_complexity: 1, plus 1 for every branch node
calculate_complexity(src) ==
    1 + Cardinality({i \in DOMAIN src : src[i].kind = "if"})

Report(safe, n, names, complexity) ==
    [safe |-> safe, check |-> n, names |-> names, complexity |-> complexity]

NoReport == Report(FALSE, 0, <<>>, 0)

SetToSeq(S) == IF S = {} THEN <<>> ELSE <<CHOOSE x \in S : TRUE>>

\* check with the entry-point check moved in front of the import check
\* (mutant of check)
check_methods_first(src, max_complexity) ==
    IF ~parses(src) THEN Report(FALSE, 1, <<>>, 0)
    ELSE IF check_required_methods(src) # {}
    THEN Report(FALSE, 4, SetToSeq(check_required_methods(src)), 0)
    ELSE IF check_imports(src) # <<>> THEN Report(FALSE, 2, check_imports(src), 0)
    ELSE IF check_function_calls(src) # <<>>
    THEN Report(FALSE, 3, check_function_calls(src), 0)
    ELSE IF calculate_complexity(src) > max_complexity
    THEN Report(FALSE, 5, <<>>, calculate_complexity(src))
    ELSE Report(TRUE, 0, <<>>, calculate_complexity(src))

\* CodeSecurityChecker.check: `check` is the number of the check that
\* answered (0: all passed)
check(src, max_complexity) ==
    IF ~parses(src) THEN Report(FALSE, 1, <<>>, 0)
    ELSE IF check_imports(src) # <<>> THEN Report(FALSE, 2, check_imports(src), 0)
    ELSE IF check_function_calls(src) # <<>>
    THEN Report(FALSE, 3, check_function_calls(src), 0)
    ELSE IF check_required_methods(src) # {}
    THEN Report(FALSE, 4, SetToSeq(check_required_methods(src)), 0)
    ELSE IF calculate_complexity(src) > max_complexity
    THEN Report(FALSE, 5, <<>>, calculate_complexity(src))
    ELSE Report(TRUE, 0, <<>>, calculate_complexity(src))

----------------------------------------------------------------------------
(* AITradingManager *)

MaxOrders == 3

\* check_approval
\* every signal is approved (mutant of check_approval)
check_approval_always(require_approval, auto_approve_threshold, signal) == TRUE

check_approval(require_approval, auto_approve_threshold, signal) ==
    IF require_approval THEN FALSE
    ELSE IF signal.amount * signal.price > auto_approve_threshold THEN FALSE
    ELSE TRUE

\* trade_record
TradeRecord(signal, t) ==
    [strategy_id |-> signal.strategy_id, action |-> signal.action,
     symbol |-> signal.symbol, amount |-> signal.amount, price |-> signal.price,
     timestamp |-> t, status |-> "completed"]

\* self.trades.get(strategy_id, [])
get_trades(tr, strategy_id) == IF strategy_id \in DOMAIN tr THEN tr[strategy_id] ELSE <<>>

\* what execute_trade returns
TradeResult(passed, approval, executed, reason, trade_id) ==
    [passed_risk_check |-> passed, require_approval |-> approval,
     executed |-> executed, reason |-> reason, trade_id |-> trade_id]

\* execute_trade: the trades afterwards and the result.  Nothing of the risk
\* validator is written: validate only reads.
manager_execute_trade(mgr, st, signal) ==
    LET risk_result == validate(st, signal) IN
    IF ~risk_result.passed
    THEN [trades |-> mgr.trades,
          result |-> TradeResult(FALSE, FALSE, FALSE, risk_result.reason, 0)]
    ELSE IF ~check_approval(mgr.require_approval, mgr.auto_approve_threshold, signal)
    THEN [trades |-> mgr.trades, result |-> TradeResult(TRUE, TRUE, FALSE, "", 0)]
    ELSE LET log == Append(get_trades(mgr.trades, signal.strategy_id),
                           TradeRecord(signal, st.now))
         IN [trades |-> SetPosition(mgr.trades, signal.strategy_id, log),
             result |-> TradeResult(TRUE, FALSE, TRUE, "", Len(log))]

\* is_running and strategies as __init__ sets them; bars counts the
\* process_bar calls and bar_outcome tells how the last one ended
Manager(require_approval, auto_approve_threshold, tr, n, last_call) ==
    [require_approval |-> require_approval,
     auto_approve_threshold |-> auto_approve_threshold,
     trades |-> tr, calls |-> n, last |-> last_call,
     is_running |-> FALSE, strategies |-> {}, bars |-> 0, bar_outcome |-> ""]

\* process_bar with the running test left out (mutant of process_bar_returns_early)
process_bar_ignores_running(is_running, strategies, strategy_id) ==
    strategy_id \notin strategies

\* the two early returns of AITradingManager.process_bar
process_bar_returns_early(is_running, strategies, strategy_id) ==
    IF ~is_running THEN TRUE
    ELSE IF strategy_id \notin strategies THEN TRUE
    ELSE FALSE

\* auto_approve_threshold: 3000 by default
Thresholds == {3000, 20000}

----------------------------------------------------------------------------
(* AIStrategyGenerator.generate *)

MaxRetries == 3

\* what one AI call gives: the client raises AIError, the response holds no
\* code block, or parse_response extracts a source
GeneratedSources ==
    {<<Stmt("class", "on_bar")>>,
     <<Stmt("import", "os"), Stmt("class", "on_bar")>>,
     <<Stmt("garbage", "")>>}

AIOutcome(k, src) == [kind |-> k, code |-> src]

AIOutcomes ==
    {AIOutcome("AIError", <<>>), AIOutcome("empty", <<>>)}
    \cup {AIOutcome("code", src) : src \in GeneratedSources}

Generation(k, n, m, attempt, log, result, error) ==
    [pc |-> k, max_retries |-> n, max_complexity |-> m, attempt |-> attempt,
     log |-> log, result |-> result, error |-> error]

\* a generator that gives up at the first failure (mutant of retry_allowed)
retry_never(attempt, max_retries) == FALSE

\* attempt < self.max_retries - 1
retry_allowed(attempt, max_retries) == attempt < max_retries - 1

\* the loop goes to its next iteration, or generate ends when range() is used up
continue(g, log) ==
    IF g.attempt + 1 < g.max_retries
    THEN [g EXCEPT !.attempt = @ + 1, !.log = log]
    ELSE [g EXCEPT !.pc = "raised", !.attempt = @ + 1, !.log = log,
                   !.error = "AIError"]

\* one iteration that returns the parsed result without the security check
\* (mutant of attempt_step)
attempt_step_unchecked(g, o) ==
    LET log == Append(g.log, o) IN
    IF o.kind \in {"AIError", "empty"}
    THEN IF retry_allowed(g.attempt, g.max_retries) THEN continue(g, log)
         ELSE [g EXCEPT !.pc = "raised", !.log = log, !.error = "AIError"]
    ELSE [g EXCEPT !.pc = "returned", !.log = log, !.result = o.code]

\* one iteration of the retry loop, the AI call giving o
attempt_step(g, o) ==
    LET log == Append(g.log, o) IN
    IF o.kind \in {"AIError", "empty"}
    THEN IF retry_allowed(g.attempt, g.max_retries) THEN continue(g, log)
         ELSE [g EXCEPT !.pc = "raised", !.log = log, !.error = "AIError"]
    ELSE IF ~check(o.code, g.max_complexity).safe
    THEN IF retry_allowed(g.attempt, g.max_retries) THEN continue(g, log)
         ELSE [g EXCEPT !.pc = "raised", !.log = log, !.error = "SecurityError"]
    ELSE [g EXCEPT !.pc = "returned", !.log = log, !.result = o.code]

\* generate before its loop: range(0) runs no iteration
generate_start(n, m) ==
    IF n = 0 THEN Generation("raised", n, m, 0, <<>>, <<>>, "AIError")
    ELSE Generation("running", n, m, 0, <<>>, <<>>, "")

----------------------------------------------------------------------------
(* ShadowManager.  Metrics are in percent (annual_return 0.30 is 30), the   *)
(* Sharpe ratio in units of 0.03 (1.5 is 50), scores in hundredths of a     *)
(* point.                                                                   *)

MaxAccounts == 2
MaxShadowCalls == 4

Min(a, b) == IF a <= b THEN a ELSE b

promotion_min_score == 3500
promotion_min_days == 14

Metrics(ar, sr, dd, vol, wr) ==
    [empty |-> FALSE, annual_return |-> ar, sharpe_ratio |-> sr, max_drawdown |-> dd,
     volatility |-> vol, win_rate |-> wr]

\* the {} an account is created with
NoMetrics == [Metrics(0, 0, 0, 0, 0) EXCEPT !.empty = TRUE]

\* a good record, a perfect one, the metrics of a losing strategy, and a
\* middling record
MetricsSet ==
    {NoMetrics, Metrics(30, 50, 9, 12, 65), Metrics(100, 100, 0, 0, 100),
     Metrics(-50, -30, 45, 30, 20), Metrics(10, 30, 15, 15, 50)}

\* calculate_score: min(annual_return * 100, 100) * 0.30
\*   + min(sharpe_ratio / 3 * 100, 100) * 0.25
\*   + max(0, (0.30 - max_drawdown) / 0.30 * 100) * 0.20
\*   + max(0, (0.30 - volatility) / 0.30 * 100) * 0.15 + win_rate * 100 * 0.10
calculate_score(metrics) ==
    IF metrics.empty THEN 0
    ELSE 30 * Min(metrics.annual_return, 100)
         + 25 * Min(metrics.sharpe_ratio, 100)
         + 20 * Max(0, ((30 - metrics.max_drawdown) * 100) \div 30)
         + 15 * Max(0, ((30 - metrics.volatility) * 100) \div 30)
         + 10 * metrics.win_rate

Account(strategy_id, days, status, metrics, score) ==
    [strategy_id |-> strategy_id, observation_days |-> days, status |-> status,
     metrics |-> metrics, score |-> score]

\* eligibility by score alone (mutant of check_promotion_eligibility)
check_promotion_eligibility_score_only(accounts, account_id) ==
    IF account_id \notin DOMAIN accounts THEN FALSE
    ELSE accounts[account_id].score >= promotion_min_score

check_promotion_eligibility(accounts, account_id) ==
    IF account_id \notin DOMAIN accounts THEN FALSE
    ELSE IF accounts[account_id].score < promotion_min_score THEN FALSE
    ELSE IF accounts[account_id].observation_days < promotion_min_days THEN FALSE
    ELSE TRUE

\* promote_to_live: the accounts afterwards and the value returned
promote_to_live(accounts, account_id) ==
    IF ~check_promotion_eligibility(accounts, account_id)
    THEN [accounts |-> accounts, result |-> FALSE]
    ELSE [accounts |-> [accounts EXCEPT ![account_id].status = "promoted"],
          result |-> TRUE]

\* terminate_account
terminate_account(accounts, account_id) ==
    IF account_id \in DOMAIN accounts
    THEN [accounts EXCEPT ![account_id].status = "terminated"]
    ELSE accounts

\* update_observation_days
update_observation_days(accounts, account_id, days) ==
    IF account_id \in DOMAIN accounts
    THEN [accounts EXCEPT ![account_id].observation_days = days]
    ELSE accounts

\* update_account_metrics: ValidationError for an unknown account
update_account_metrics(accounts, account_id, metrics) ==
    IF account_id \notin DOMAIN accounts THEN accounts
    ELSE [accounts EXCEPT ![account_id].metrics = metrics,
                          ![account_id].score = calculate_score(metrics)]

ShadowCall(op, account_id, result) == [op |-> op, id |-> account_id, result |-> result]

NoShadowCall == ShadowCall("", 0, FALSE)

\* terminated: the accounts terminate_account has been called on
Shadow(accounts, next_account_id, last_call, terminated, n) ==
    [accounts |-> accounts, next_account_id |-> next_account_id, last |-> last_call,
     terminated |-> terminated, calls |-> n]

----------------------------------------------------------------------------
(* The adapter driven bar by bar, the strategy free to emit any signal.    *)
(* Bars arrive in non-decreasing date order (the data supplier's contract).*)

EmptyLocks == [s \in {} |-> 0]

NoCall == [bar |-> Bar(NoDate, 0, 0), signal |-> NoneSignal,
           out |-> Outcome("none", NoOrder), date_before |-> NoDate,
           locks_updated |-> EmptyLocks, executed |-> FALSE]

NextDates == {d \in Dates : d >= current_date}

\* the record kept of one process_bar call
Call(bar, signal, r, executed) ==
    [bar |-> bar, signal |-> signal, out |-> r.out, date_before |-> current_date,
     locks_updated |-> update_current_date(t1_locks, current_date, bar.date),
     executed |-> executed]

Bought(r, d) ==
    IF r.out.kind = "order" /\ r.out.order.action = "buy"
    THEN bought \cup {<<r.out.order.symbol, d>>}
    ELSE bought

\* StrategyAdapter.__init__
AdapterFresh ==
    /\ t1_locks = EmptyLocks
    /\ current_date = NoDate
    /\ attrs = <<>>
    /\ last = NoCall
    /\ bought = {}
    /\ calls = 0

\* BacktestEngine.__init__
NoRunLog ==
    [recording |-> FALSE, rows |-> <<>>, cash |-> 0, positions |-> EmptyLocks,
     trades |-> <<>>, portfolio_values |-> <<>>, pc |-> "none"]

EngineFresh ==
    /\ cash = initial_cash
    /\ positions = EmptyLocks
    /\ trades = <<>>
    /\ portfolio_values = <<>>
    /\ enable_china_rules = TRUE
    /\ pc = "idle"
    /\ idx = 0
    /\ cash_log = <<>>
    /\ row = Bar(NoDate, 0, 0)
    /\ second_run = FALSE
    /\ first_run = NoRunLog
    /\ self_initial_cash = initial_cash

NoValidation ==
    [signal |-> [action |-> "", symbol |-> "", amount |-> 0, price |-> 0,
                 strategy_id |-> 0],
     state |-> RiskState(0, 0, EmptyLocks, EmptyLocks, <<>>, {}, 0),
     result |-> [passed |-> TRUE, layer |-> 0, reason |-> "", risk_score |-> 0]]

\* RiskValidator.__init__(total_capital, blacklist = ["SH600002"])
RiskFresh ==
    /\ current_account_value = total_capital
    /\ daily_start_value = total_capital
    /\ strategy_capitals = EmptyLocks
    /\ prev_close_prices = EmptyLocks
    /\ trade_timestamps = <<>>
    /\ blacklist = {"SH600002"}
    /\ now = 0
    /\ risk_last = NoValidation
    /\ gate_passed = {}

NoRun == [idx |-> 0, outs |-> <<>>, fed |-> <<>>, hist |-> <<>>]

\* no second adapter
PairIdle ==
    /\ code = "Counter"
    /\ dataA = <<>>
    /\ dataB = <<>>
    /\ runA = NoRun
    /\ runB = NoRun
    /\ t1_locks2 = EmptyLocks
    /\ current_date2 = NoDate
    /\ attrs2 = <<>>
    /\ shared_locks = FALSE
    /\ restored_at = -1

\* StrategySandbox.__init__: no execute call yet
SandboxIdle ==
    sandbox = Execution("idle", NoSource, 0, 0, "exec", FALSE, {}, NoException,
                        NoError)

\* no check call yet
CheckerIdle ==
    checker = [source |-> <<>>, max_complexity |-> 0, report |-> NoReport]

\* no execute_trade call yet
NoExecution ==
    [signal |-> NoValidation.signal, state |-> NoValidation.state,
     result |-> TradeResult(FALSE, FALSE, FALSE, "", 0)]

\* AITradingManager.__init__ with its defaults
ManagerIdle == manager = Manager(FALSE, 3000, EmptyLocks, 0, NoExecution)

\* AIStrategyGenerator.__init__: no generate call yet
GeneratorIdle == generator = Generation("idle", 0, 0, 0, <<>>, <<>>, "")

\* ShadowManager.__init__: no account
ShadowIdle == shadow = Shadow(EmptyLocks, 1, NoShadowCall, {}, 0)

AiIdle == SandboxIdle /\ CheckerIdle /\ ManagerIdle /\ GeneratorIdle /\ ShadowIdle

InitAdapter == AdapterFresh /\ EngineFresh /\ RiskFresh /\ PairIdle /\ AiIdle

ProcessBar ==
    /\ calls < MaxCalls
    /\ \E d \in NextDates, signal \in Signals :
         LET bar == Bar(d, 10, 1)
             r == process_bar(t1_locks, current_date, 1, bar, signal)
         IN
         /\ current_date' = d
         /\ t1_locks' = r.locks
         /\ last' = Call(bar, signal, r, FALSE)
         /\ bought' = Bought(r, d)
         /\ calls' = calls + 1
         /\ UNCHANGED <<attrs, engineVars, gate_passed, riskVars, pairVars, aiVars, mgrVars>>

NextAdapter == ProcessBar

SpecAdapter == InitAdapter /\ [][NextAdapter]_vars

----------------------------------------------------------------------------
(* BacktestEngine.run, one action per row of the data frame.  The strategy *)
(* is free to emit any signal on each bar.                                 *)

RunSymbol == "X"

Closes == {10, 100}

EngineSignals ==
    {NoneSignal, InfoSignal, RaiseSignal,
     ActionSignal("hold", "X", NoAmount),
     ActionSignal("buy", "Y", <<100>>)}
    \cup {ActionSignal("buy", "X", n) : n \in {NoAmount, <<-100>>, <<100>>, <<150>>, <<200>>}}
    \cup {ActionSignal("sell", "X", n) : n \in {NoAmount, <<-100>>, <<100>>, <<150>>}}

\* the second of two runs on the same data is given the rows of the first, and
\* the same strategy source answers them with the same signals
Replayed(bar, signal) ==
    second_run =>
        /\ idx < Len(first_run.rows)
        /\ first_run.rows[idx + 1] = [bar |-> bar, signal |-> signal]

Logged(bar, signal) ==
    IF first_run.recording /\ ~second_run
    THEN [first_run EXCEPT !.rows = Append(@, [bar |-> bar, signal |-> signal])]
    ELSE first_run

\* the signals and closes tried when a run is to be repeated
RerunSignals ==
    {NoneSignal, RaiseSignal, ActionSignal("buy", "X", <<100>>),
     ActionSignal("sell", "X", <<100>>)}

RunSignals == IF first_run.recording THEN RerunSignals ELSE EngineSignals

RunCloses == IF first_run.recording THEN {10} ELSE Closes

\* a ledger as _reset leaves it, but with the positions kept (mutant of reset)
reset_keeps_positions(self) == Ledger(self.initial_cash, self.positions, <<>>, FALSE)

\* _reset(self): cash, positions and trades as it leaves them
reset(self) == Ledger(self.initial_cash, EmptyLocks, <<>>, FALSE)

\* BacktestEngine() then run(): _reset and a fresh StrategyAdapter
InitEngine ==
    /\ AdapterFresh
    /\ RiskFresh
    /\ PairIdle
    /\ AiIdle
    /\ cash = initial_cash
    /\ positions = EmptyLocks
    /\ trades = <<>>
    /\ portfolio_values = <<initial_cash>>
    /\ enable_china_rules \in BOOLEAN
    /\ pc = "loop"
    /\ idx = 0
    /\ cash_log = <<>>
    /\ row = Bar(NoDate, 0, 0)
    /\ second_run = FALSE
    /\ first_run = NoRunLog
    /\ self_initial_cash = initial_cash

\* a suspended bar (volume 0) with market rules on: `continue`
RunSuspendedBar ==
    /\ pc = "loop"
    /\ idx < MaxBars
    /\ enable_china_rules
    /\ \E d \in NextDates, c \in RunCloses :
         /\ is_suspended(Bar(d, c, 0))
         /\ Replayed(Bar(d, c, 0), NoneSignal)
         /\ first_run' = Logged(Bar(d, c, 0), NoneSignal)
         /\ row' = Bar(d, c, 0)
         /\ idx' = idx + 1
         /\ UNCHANGED <<adapterVars, cash, positions, trades, portfolio_values,
                        enable_china_rules, pc, cash_log, second_run,
                        self_initial_cash, gate_passed, riskVars, pairVars,
                        aiVars, mgrVars>>

\* the loop body: process_bar, _execute_trade, portfolio value
RunBar ==
    /\ pc = "loop"
    /\ idx < MaxBars
    /\ \E d \in NextDates, c \in RunCloses, v \in {0, 1}, signal \in RunSignals :
         LET bar == Bar(d, c, v)
             r == process_bar(t1_locks, current_date, 1, bar, signal)
             l == IF r.out.kind = "order"
                  THEN execute_trade(cash, positions, trades, r.out.order, bar,
                                     RunSymbol, enable_china_rules)
                  ELSE Ledger(cash, positions, trades, FALSE)
         IN
         /\ ~(enable_china_rules /\ is_suspended(bar))
         /\ Replayed(bar, signal)
         /\ first_run' = Logged(bar, signal)
         /\ row' = bar
         /\ current_date' = d
         /\ t1_locks' = r.locks
         /\ last' = Call(bar, signal, r, l.executed)
         /\ bought' = Bought(r, d)
         /\ calls' = calls + 1
         /\ idx' = idx + 1
         /\ IF r.out.kind \in {"ExecutionError", "ValueError"}
            THEN /\ pc' = "raised"
                 /\ UNCHANGED <<cash, positions, trades, portfolio_values, cash_log>>
            ELSE /\ pc' = pc
                 /\ cash' = l.cash
                 /\ cash_log' = IF l.executed THEN Append(cash_log, cash) ELSE cash_log
                 /\ positions' = l.positions
                 /\ trades' = l.trades
                 /\ portfolio_values' =
                      Append(portfolio_values,
                             calculate_portfolio_value(l.cash, l.positions, c))
         /\ UNCHANGED <<attrs, enable_china_rules, second_run, self_initial_cash,
                        gate_passed, riskVars, pairVars, aiVars, mgrVars>>

\* the loop is over: _calculate_metrics and return
RunFinish ==
    /\ pc = "loop"
    /\ second_run => idx = Len(first_run.rows)
    /\ pc' = IF self_initial_cash = 0 THEN "raised" ELSE "done"
    /\ UNCHANGED <<adapterVars, cash, positions, trades, portfolio_values,
                   enable_china_rules, idx, cash_log, row, second_run, first_run,
                   self_initial_cash, gate_passed, riskVars, pairVars, aiVars,
                   mgrVars>>

NextEngine == RunSuspendedBar \/ RunBar \/ RunFinish

SpecEngine == InitEngine /\ [][NextEngine]_vars

----------------------------------------------------------------------------
(* An engine from its construction on: BacktestEngine(initial_cash,         *)
(* enable_china_rules), then run, then run again on the same source and    *)
(* data                                                                     *)

InitialCashes == {initial_cash, 0, -initial_cash}

InitLifecycle ==
    /\ AdapterFresh /\ RiskFresh /\ PairIdle /\ AiIdle
    /\ cash = 0
    /\ positions = EmptyLocks
    /\ trades = <<>>
    /\ portfolio_values = <<>>
    /\ enable_china_rules = TRUE
    /\ pc = "none"
    /\ idx = 0
    /\ cash_log = <<>>
    /\ row = Bar(NoDate, 0, 0)
    /\ second_run = FALSE
    /\ first_run = [NoRunLog EXCEPT !.recording = TRUE]
    /\ self_initial_cash = 0

\* BacktestEngine.__init__
Construct ==
    /\ pc = "none"
    /\ \E ic \in InitialCashes, rules \in BOOLEAN :
         /\ self_initial_cash' = ic
         /\ enable_china_rules' = rules
         /\ cash' = ic
    /\ positions' = EmptyLocks
    /\ trades' = <<>>
    /\ portfolio_values' = <<>>
    /\ pc' = "idle"
    /\ UNCHANGED <<adapterVars, idx, cash_log, row, second_run, first_run,
                   gate_passed, riskVars, pairVars, aiVars, mgrVars>>

\* run up to its loop: _reset, then StrategyAdapter(strategy_code, 1)
RunCall ==
    /\ pc \in {"idle", "done", "raised"}
    /\ ~second_run
    /\ second_run' = (pc # "idle")
    /\ first_run' = IF pc = "idle" THEN first_run
                    ELSE [first_run EXCEPT !.cash = cash, !.positions = positions,
                                           !.trades = trades,
                                           !.portfolio_values = portfolio_values,
                                           !.pc = pc]
    /\ LET l == reset([initial_cash |-> self_initial_cash, cash |-> cash,
                       positions |-> positions, trades |-> trades]) IN
         /\ cash' = l.cash
         /\ positions' = l.positions
         /\ trades' = l.trades
         /\ portfolio_values' = <<self_initial_cash>>
    /\ t1_locks' = EmptyLocks
    /\ current_date' = NoDate
    /\ attrs' = <<>>
    /\ last' = NoCall
    /\ bought' = {}
    /\ calls' = 0
    /\ pc' = "loop"
    /\ idx' = 0
    /\ cash_log' = <<>>
    /\ row' = Bar(NoDate, 0, 0)
    /\ UNCHANGED <<enable_china_rules, self_initial_cash, gate_passed, riskVars,
                   pairVars, aiVars, mgrVars>>

NextLifecycle == Construct \/ RunCall \/ NextEngine

SpecLifecycle == InitLifecycle /\ [][NextLifecycle]_vars

----------------------------------------------------------------------------
(* RiskValidator driven by its setters, the clock and validate *)

AccountValues == {100000, 94000, 89000}
StartValues == {100000, 98000}
RiskAmounts == {100, 1500, 2500}

RiskSignal(a, s, n, p) ==
    [action |-> a, symbol |-> s, amount |-> n, price |-> p, strategy_id |-> 1]

RiskSignals ==
    {RiskSignal("buy", s, n, p) :
        s \in {"SH600000", "SH600002", "ST600001"}, n \in RiskAmounts, p \in {10, 11}}
    \cup {RiskSignal("sell", "SH600000", n, p) : n \in {100, 2500}, p \in {9, 11}}
    \cup {RiskSignal("buy", "SH600000", 100, 9), RiskSignal("buy", "SH600000", 1900, 10)}

CurrentRiskState ==
    RiskState(current_account_value, daily_start_value, strategy_capitals,
              prev_close_prices, trade_timestamps, blacklist, now)

InitRisk == AdapterFresh /\ EngineFresh /\ RiskFresh /\ PairIdle /\ AiIdle

\* risk_last describes the validate call that has just returned; any other
\* operation clears it
UpdateAccountValue ==
    /\ \E v \in AccountValues : current_account_value' = v
    /\ risk_last' = NoValidation
    /\ UNCHANGED <<adapterVars, engineVars, pairVars, gate_passed, daily_start_value,
                   strategy_capitals, prev_close_prices, trade_timestamps,
                   blacklist, now, aiVars, mgrVars>>

UpdateDailyStartValue ==
    /\ \E v \in StartValues : daily_start_value' = v
    /\ risk_last' = NoValidation
    /\ UNCHANGED <<adapterVars, engineVars, pairVars, gate_passed, current_account_value,
                   strategy_capitals, prev_close_prices, trade_timestamps,
                   blacklist, now, aiVars, mgrVars>>

UpdateStrategyCapital ==
    /\ strategy_capitals' = SetPosition(strategy_capitals, 1, 20000)
    /\ risk_last' = NoValidation
    /\ UNCHANGED <<adapterVars, engineVars, pairVars, gate_passed, current_account_value,
                   daily_start_value, prev_close_prices, trade_timestamps,
                   blacklist, now, aiVars, mgrVars>>

UpdatePrevClose ==
    /\ prev_close_prices' = SetPosition(prev_close_prices, "SH600000", 10)
    /\ risk_last' = NoValidation
    /\ UNCHANGED <<adapterVars, engineVars, pairVars, gate_passed, current_account_value,
                   daily_start_value, strategy_capitals, trade_timestamps,
                   blacklist, now, aiVars, mgrVars>>

RecordTrade ==
    /\ Len(trade_timestamps) < MaxTrades
    /\ trade_timestamps' = record_trade(trade_timestamps, now, now)
    /\ risk_last' = NoValidation
    /\ UNCHANGED <<adapterVars, engineVars, pairVars, gate_passed, current_account_value,
                   daily_start_value, strategy_capitals, prev_close_prices,
                   blacklist, now, aiVars, mgrVars>>

Tick ==
    /\ now < MaxTime
    /\ now' = now + 1
    /\ risk_last' = NoValidation
    /\ UNCHANGED <<adapterVars, engineVars, pairVars, gate_passed, current_account_value,
                   daily_start_value, strategy_capitals, prev_close_prices,
                   trade_timestamps, blacklist, aiVars, mgrVars>>

Validate ==
    /\ \E signal \in RiskSignals :
         LET after == validate_state(CurrentRiskState, signal) IN
         /\ risk_last' = [signal |-> signal, state |-> CurrentRiskState,
                          result |-> validate(CurrentRiskState, signal)]
         /\ current_account_value' = after.current_account_value
         /\ daily_start_value' = after.daily_start_value
         /\ strategy_capitals' = after.strategy_capitals
         /\ prev_close_prices' = after.prev_close_prices
         /\ trade_timestamps' = after.trade_timestamps
         /\ blacklist' = after.blacklist
    /\ UNCHANGED <<adapterVars, engineVars, pairVars, gate_passed, now, aiVars, mgrVars>>

NextRisk ==
    \/ UpdateAccountValue
    \/ UpdateDailyStartValue
    \/ UpdateStrategyCapital
    \/ UpdatePrevClose
    \/ RecordTrade
    \/ Tick
    \/ Validate

SpecRisk == InitRisk /\ [][NextRisk]_vars

----------------------------------------------------------------------------
(* Two adapters built from the same strategy source *)

\* bar sequences of length n in non-decreasing date order, starting on day 1
RECURSIVE BarSeqs(_)
BarSeqs(n) ==
    IF n = 0 THEN {<<>>}
    ELSE {Append(q, Bar(d, c, 1)) :
            q \in BarSeqs(n - 1), d \in Dates, c \in {10, 20}}

Ordered(q) ==
    /\ Len(q) > 0 => q[1].date = 1
    /\ \A i \in 1..(Len(q) - 1) : q[i + 1].date \in {q[i].date, q[i].date + 1}

DataSets == {q \in BarSeqs(MaxRows) : Ordered(q)}

Ran(run, bar, st) ==
    [idx |-> run.idx + 1,
     outs |-> Append(run.outs, st.out),
     fed |-> Append(run.fed, bar),
     hist |-> Append(run.hist, st.attrs)]

\* the first adapter processes its next row
StepA ==
    /\ runA.idx < Len(dataA)
    /\ LET bar == row_bar(dataA, runA.idx + 1)
           st == adapter_step(code, t1_locks, current_date, attrs, bar)
       IN /\ t1_locks' = st.locks
          /\ current_date' = bar.date
          /\ attrs' = st.attrs
          /\ runA' = Ran(runA, bar, st)
          /\ t1_locks2' = IF shared_locks THEN st.locks ELSE t1_locks2
    /\ UNCHANGED <<last, bought, calls, engineVars, gate_passed, riskVars, code,
                   dataA, dataB, runB, current_date2, attrs2, shared_locks,
                   restored_at, aiVars, mgrVars>>

\* the second adapter processes its next row
StepB ==
    /\ restored_at >= 0
    /\ runB.idx < Len(dataB)
    /\ LET bar == row_bar(dataB, runB.idx + 1)
           st == adapter_step(code, t1_locks2, current_date2, attrs2, bar)
       IN /\ t1_locks2' = st.locks
          /\ current_date2' = bar.date
          /\ attrs2' = st.attrs
          /\ runB' = Ran(runB, bar, st)
          /\ t1_locks' = IF shared_locks THEN st.locks ELSE t1_locks
    /\ UNCHANGED <<current_date, attrs, last, bought, calls, engineVars,
                   gate_passed, riskVars, code, dataA, dataB, runA, shared_locks,
                   restored_at, aiVars, mgrVars>>

\* state = adapter.get_state(); adapter2 = StrategyAdapter(code, 1);
\* adapter2.restore_state(state)
SaveAndRestore ==
    /\ restored_at = -1
    /\ LET r == adapter_restore_state(new_instance(code),
                                      adapter_get_state(t1_locks, current_date, attrs))
       IN /\ t1_locks2' = r.t1_locks
          /\ current_date2' = r.current_date
          /\ attrs2' = r.attrs
    /\ shared_locks' = TRUE
    /\ restored_at' = runA.idx
    /\ runB' = runA
    /\ UNCHANGED <<adapterVars, engineVars, gate_passed, riskVars, code, dataA,
                   dataB, runA, aiVars, mgrVars>>

InitRestore ==
    /\ EngineFresh
    /\ RiskFresh
    /\ AiIdle
    /\ code \in Codes
    /\ dataA \in DataSets
    /\ dataB = dataA
    /\ t1_locks = EmptyLocks
    /\ current_date = NoDate
    /\ attrs = new_instance(code)
    /\ last = NoCall
    /\ bought = {}
    /\ calls = 0
    /\ runA = NoRun
    /\ runB = NoRun
    /\ t1_locks2 = EmptyLocks
    /\ current_date2 = NoDate
    /\ attrs2 = new_instance(code)
    /\ shared_locks = FALSE
    /\ restored_at = -1

NextRestore == StepA \/ SaveAndRestore \/ StepB

SpecRestore == InitRestore /\ [][NextRestore]_vars

\* two fresh adapters run, row by row, over two data frames
StepBoth ==
    /\ runA.idx < Len(dataA)
    /\ LET barA == row_bar(dataA, runA.idx + 1)
           barB == row_bar(dataB, runB.idx + 1)
           stA == adapter_step(code, t1_locks, current_date, attrs, barA)
           stB == adapter_step(code, t1_locks2, current_date2, attrs2, barB)
       IN /\ t1_locks' = stA.locks
          /\ current_date' = barA.date
          /\ attrs' = stA.attrs
          /\ runA' = Ran(runA, barA, stA)
          /\ t1_locks2' = stB.locks
          /\ current_date2' = barB.date
          /\ attrs2' = stB.attrs
          /\ runB' = Ran(runB, barB, stB)
    /\ UNCHANGED <<last, bought, calls, engineVars, gate_passed, riskVars, code,
                   dataA, dataB, shared_locks, restored_at, aiVars, mgrVars>>

InitLookahead ==
    /\ EngineFresh
    /\ RiskFresh
    /\ AiIdle
    /\ code \in Codes
    /\ dataA \in DataSets
    /\ dataB \in DataSets
    /\ t1_locks = EmptyLocks
    /\ current_date = NoDate
    /\ attrs = new_instance(code)
    /\ last = NoCall
    /\ bought = {}
    /\ calls = 0
    /\ runA = NoRun
    /\ runB = NoRun
    /\ t1_locks2 = EmptyLocks
    /\ current_date2 = NoDate
    /\ attrs2 = new_instance(code)
    /\ shared_locks = FALSE
    /\ restored_at = -1

NextLookahead == StepBoth

SpecLookahead == InitLookahead /\ [][NextLookahead]_vars

----------------------------------------------------------------------------
(* StrategySandbox.execute, step by step; time passes while the code loops *)

InitSandbox == AdapterFresh /\ EngineFresh /\ RiskFresh /\ PairIdle /\ AiIdle

\* execute(code): signal.alarm(self.timeout), the namespace, then exec(code)
SandboxExecute ==
    /\ sandbox.pc # "running"
    /\ \E src \in Sources, t \in Timeouts :
         sandbox' = Execution("running", src, t, t, "exec", FALSE, {},
                              NoException, NoError)
    /\ UNCHANGED <<adapterVars, engineVars, gate_passed, riskVars, pairVars, checker,
                   mgrVars>>

\* the module body, __init__ or the entry point runs to its end or raises
SandboxRun ==
    /\ sandbox.pc = "running"
    /\ Current(sandbox) \notin Loops
    /\ sandbox' = run_part(sandbox)
    /\ UNCHANGED <<adapterVars, engineVars, gate_passed, riskVars, pairVars, checker,
                   mgrVars>>

\* a second passes in a loop; SIGALRM is delivered when the alarm runs out
SandboxTick ==
    /\ sandbox.pc = "running"
    /\ Current(sandbox) \in Loops
    /\ sandbox.alarm > 0
    /\ sandbox' = IF sandbox.alarm = 1 THEN timeout_handler(sandbox)
                  ELSE [sandbox EXCEPT !.alarm = @ - 1]
    /\ UNCHANGED <<adapterVars, engineVars, gate_passed, riskVars, pairVars, checker,
                   mgrVars>>

\* one more iteration of the loop the code is in (spin: its parity)
SandboxSpin ==
    /\ sandbox.pc = "running"
    /\ Current(sandbox) \in Loops
    /\ sandbox' = [sandbox EXCEPT !.spin = ~@]
    /\ UNCHANGED <<adapterVars, engineVars, gate_passed, riskVars, pairVars, checker,
                   mgrVars>>

NextSandbox == SandboxExecute \/ SandboxRun \/ SandboxTick \/ SandboxSpin

SpecSandbox == InitSandbox /\ [][NextSandbox]_vars

\* the interpreter keeps running the code and the clock keeps ticking
SpecSandboxLive ==
    SpecSandbox /\ WF_vars(SandboxRun) /\ WF_vars(SandboxSpin) /\ WF_vars(SandboxTick)

----------------------------------------------------------------------------
(* CodeSecurityChecker.check called on any source *)

InitChecker == AdapterFresh /\ EngineFresh /\ RiskFresh /\ PairIdle /\ AiIdle

\* check is a pure function of the source: one call per behaviour
Check ==
    /\ checker.max_complexity = 0
    /\ \E src \in StmtSeqs(MaxStmts), m \in MaxComplexities :
         checker' = [source |-> src, max_complexity |-> m, report |-> check(src, m)]
    /\ UNCHANGED <<adapterVars, engineVars, gate_passed, riskVars, pairVars, sandbox,
                   mgrVars>>

NextChecker == Check

SpecChecker == InitChecker /\ [][NextChecker]_vars

----------------------------------------------------------------------------
(* AITradingManager.execute_trade, with the account value and the clock of  *)
(* its risk validator moving                                                *)

ManagerSignals ==
    {RiskSignal("buy", "SH600000", 100, 10),
     RiskSignal("buy", "SH600000", 1500, 11),
     RiskSignal("buy", "SH600000", 2500, 10),
     RiskSignal("buy", "ST600001", 100, 10),
     RiskSignal("sell", "SH600000", 100, 11)}

\* AITradingManager(require_approval, auto_approve_threshold): its validator
\* is RiskValidator(total_capital), without a custom blacklist
InitManager ==
    /\ AdapterFresh
    /\ EngineFresh
    /\ PairIdle
    /\ SandboxIdle
    /\ CheckerIdle
    /\ GeneratorIdle
    /\ ShadowIdle
    /\ current_account_value = total_capital
    /\ daily_start_value = total_capital
    /\ strategy_capitals = EmptyLocks
    /\ prev_close_prices = EmptyLocks
    /\ trade_timestamps = <<>>
    /\ blacklist = {}
    /\ now = 0
    /\ risk_last = NoValidation
    /\ gate_passed = {}
    /\ \E ra \in BOOLEAN, th \in Thresholds :
         manager = Manager(ra, th, EmptyLocks, 0, NoExecution)

ExecuteTrade ==
    /\ manager.calls < MaxOrders
    /\ \E signal \in ManagerSignals :
         LET r == manager_execute_trade(manager, CurrentRiskState, signal) IN
         manager' = [manager EXCEPT !.trades = r.trades, !.calls = @ + 1,
                                    !.last = [signal |-> signal, state |-> NoValidation.state,
                                              result |-> r.result]]
    /\ UNCHANGED <<adapterVars, engineVars, gate_passed, riskVars, pairVars, aiVars,
                   generator, shadow>>

NextManager == ExecuteTrade \/ UpdateAccountValue \/ Tick

SpecManager == InitManager /\ [][NextManager]_vars

----------------------------------------------------------------------------
(* AIStrategyGenerator.generate, one action per iteration of its loop *)

InitGenerator ==
    /\ AdapterFresh /\ EngineFresh /\ RiskFresh /\ PairIdle
    /\ SandboxIdle /\ CheckerIdle /\ ManagerIdle /\ GeneratorIdle /\ ShadowIdle

\* generate(user_input) on a generator built with max_retries = n
Generate ==
    /\ generator.pc # "running"
    /\ \E n \in 0..MaxRetries, m \in MaxComplexities :
         generator' = generate_start(n, m)
    /\ UNCHANGED <<adapterVars, engineVars, gate_passed, riskVars, pairVars, aiVars,
                   manager, shadow>>

\* one iteration: prompt, AI call, parse, security check
Attempt ==
    /\ generator.pc = "running"
    /\ \E o \in AIOutcomes : generator' = attempt_step(generator, o)
    /\ UNCHANGED <<adapterVars, engineVars, gate_passed, riskVars, pairVars, aiVars,
                   manager, shadow>>

NextGenerator == Generate \/ Attempt

SpecGenerator == InitGenerator /\ [][NextGenerator]_vars

\* the AI call of each iteration returns or raises
SpecGeneratorLive == SpecGenerator /\ WF_vars(Attempt)

----------------------------------------------------------------------------
(* ShadowManager driven by its callers *)

AccountIds == 1..(MaxAccounts + 1)
ObservationDays == {7, 14}

InitShadow == AdapterFresh /\ EngineFresh /\ RiskFresh /\ PairIdle /\ AiIdle

ShadowFrame ==
    UNCHANGED <<adapterVars, engineVars, gate_passed, riskVars, pairVars, aiVars,
                manager, generator>>

CreateShadowAccount ==
    /\ shadow.next_account_id <= MaxAccounts
    /\ \E days \in ObservationDays :
         shadow' = [shadow EXCEPT
                      !.accounts = SetPosition(@, shadow.next_account_id,
                                               Account(1, days, "observing", NoMetrics, 0)),
                      !.next_account_id = @ + 1,
                      !.last = ShadowCall("create", shadow.next_account_id, TRUE)]
    /\ ShadowFrame

UpdateAccountMetrics ==
    /\ shadow.calls < MaxShadowCalls
    /\ \E id \in AccountIds, metrics \in MetricsSet :
         shadow' = [shadow EXCEPT
                      !.accounts = update_account_metrics(@, id, metrics),
                      !.last = ShadowCall("metrics", id, id \in DOMAIN shadow.accounts),
                      !.calls = @ + 1]
    /\ ShadowFrame

UpdateObservationDays ==
    /\ shadow.calls < MaxShadowCalls
    /\ \E id \in AccountIds, days \in ObservationDays :
         shadow' = [shadow EXCEPT
                      !.accounts = update_observation_days(@, id, days),
                      !.last = ShadowCall("days", id, TRUE),
                      !.calls = @ + 1]
    /\ ShadowFrame

PromoteToLive ==
    /\ shadow.calls < MaxShadowCalls
    /\ \E id \in AccountIds :
         LET r == promote_to_live(shadow.accounts, id) IN
         shadow' = [shadow EXCEPT
                      !.accounts = r.accounts,
                      !.last = ShadowCall("promote", id, r.result),
                      !.calls = @ + 1]
    /\ ShadowFrame

TerminateAccount ==
    /\ shadow.calls < MaxShadowCalls
    /\ \E id \in AccountIds :
         shadow' = [shadow EXCEPT
                      !.accounts = terminate_account(@, id),
                      !.last = ShadowCall("terminate", id, TRUE),
                      !.terminated = @ \cup ({id} \cap DOMAIN shadow.accounts),
                      !.calls = @ + 1]
    /\ ShadowFrame

NextShadow ==
    \/ CreateShadowAccount
    \/ UpdateAccountMetrics
    \/ UpdateObservationDays
    \/ PromoteToLive
    \/ TerminateAccount

SpecShadow == InitShadow /\ [][NextShadow]_vars

----------------------------------------------------------------------------
(* AITradingManager fed with bars: start, stop, add_strategy, process_bar *)

ManagerBarSignals ==
    {NoneSignal, InfoSignal,
     ActionSignal("buy", "SH600000", <<100>>),
     ActionSignal("buy", "SH600000", <<150>>),
     ActionSignal("sell", "SH600000", <<100>>)}

StartAutoTrading ==
    /\ manager' = [manager EXCEPT !.is_running = TRUE]
    /\ UNCHANGED <<adapterVars, engineVars, gate_passed, riskVars, pairVars, aiVars,
                   generator, shadow>>

StopAutoTrading ==
    /\ manager' = [manager EXCEPT !.is_running = FALSE]
    /\ UNCHANGED <<adapterVars, engineVars, gate_passed, riskVars, pairVars, aiVars,
                   generator, shadow>>

\* add_strategy(1, code) that succeeds: a new adapter, an empty trade list
AddStrategy ==
    /\ manager' = [manager EXCEPT !.strategies = @ \cup {1},
                                  !.trades = SetPosition(@, 1, <<>>)]
    /\ t1_locks' = EmptyLocks
    /\ current_date' = NoDate
    /\ attrs' = <<>>
    /\ last' = NoCall
    /\ bought' = {}
    /\ UNCHANGED <<calls, engineVars, gate_passed, riskVars, pairVars, aiVars,
                   generator, shadow>>

\* process_bar(1, bar), the strategy answering the bar with `signal`
ManagerProcessBar ==
    /\ manager.bars < MaxCalls
    /\ \E d \in NextDates, signal \in ManagerBarSignals :
         IF process_bar_returns_early(manager.is_running, manager.strategies, 1)
         THEN /\ manager' = [manager EXCEPT
                               !.bars = @ + 1,
                               !.bar_outcome = IF manager.is_running THEN "no_strategy"
                                               ELSE "not_running"]
              /\ UNCHANGED adapterVars
         ELSE LET bar == Bar(d, 10, 1)
                  r == process_bar(t1_locks, current_date, 1, bar, signal)
                  o == r.out.order
                  e == manager_execute_trade(
                           manager, CurrentRiskState,
                           RiskSignal(o.action, o.symbol, o.amount, o.price))
              IN
              /\ current_date' = d
              /\ t1_locks' = r.locks
              /\ last' = Call(bar, signal, r, r.out.kind = "order" /\ e.result.executed)
              /\ bought' = Bought(r, d)
              /\ calls' = calls + 1
              /\ attrs' = attrs
              /\ manager' = IF r.out.kind = "order"
                            THEN [manager EXCEPT !.trades = e.trades,
                                                 !.bars = @ + 1,
                                                 !.bar_outcome = "processed"]
                            ELSE [manager EXCEPT !.bars = @ + 1,
                                                 !.bar_outcome = "processed"]
    /\ UNCHANGED <<engineVars, gate_passed, riskVars, pairVars, aiVars, generator,
                   shadow>>

NextAutoTrading ==
    StartAutoTrading \/ StopAutoTrading \/ AddStrategy \/ ManagerProcessBar

SpecAutoTrading == InitManager /\ [][NextAutoTrading]_vars

----------------------------------------------------------------------------
(* Settlement lock (T+1) *)

IsSellOf(signal, x) ==
    signal.kind = "action" /\ signal.action = "sell" /\ signal.symbol = x

\* C1: once process_bar has returned a buy order for X on a bar dated T, a
\* later call whose bar is dated T and whose signal is a sell of X returns
\* None, whatever the sell amount.
C1_SameDaySellSuppressed ==
    \A x \in Symbols :
        (IsSellOf(last.signal, x) /\ <<x, last.bar.date>> \in bought)
            => last.out.kind = "none"

C1_Witness ==
    /\ IsSellOf(last.signal, "X")
    /\ last.signal.amount = <<150>>
    /\ <<"X", last.bar.date>> \in bought
    /\ t1_locks["X"].amount = 100
    /\ last.out.kind = "none"

----------------------------------------------------------------------------
(* The ledger of BacktestEngine *)

OrderKey(t) == [date |-> t.date, action |-> t.action, amount |-> t.amount]

\* C2: no order changes cash, positions or the trade log unless
\* RiskValidator.validate evaluated it first and returned passed = true.
C2_OnlyGatedOrdersTrade ==
    \A i \in DOMAIN trades : OrderKey(trades[i]) \in gate_passed

\* C3: every position amount held in the ledger is >= 0, for any sequence of
\* strategy signals.
C3_PositionsNonNegative ==
    \A s \in DOMAIN positions : positions[s] >= 0

\* C5: _execute_trade is all-or-nothing: a rejected order leaves cash,
\* positions and the trade log as they were; an accepted one changes cash, the
\* position and the trade log in the same call.
C5_AllOrNothing ==
    [][(pc = "loop" /\ calls' = calls + 1 /\ last'.out.kind = "order") =>
          IF last'.executed
          THEN /\ cash' # cash
               /\ PositionOf(positions', RunSymbol) # PositionOf(positions, RunSymbol)
               /\ Len(trades') = Len(trades) + 1
          ELSE UNCHANGED <<cash, positions, trades>>]_vars

\* C8: when the strategy's entry point raises on one bar during run, the error
\* is turned into a failed-bar outcome and the run goes on with the next bars.
C8_RunSurvivesStrategyError ==
    last.out.kind = "ExecutionError" => pc # "raised"

\* C10: a settlement lock is created or incremented only when a buy is
\* admitted and executed on the ledger; a buy the ledger rejects leaves the
\* lock table as the date update of that call produced it.
C10_LockOnlyOnAdmittedBuy ==
    (last.out.kind = "order" /\ last.out.order.action = "buy" /\ ~last.executed)
        => t1_locks = last.locks_updated

----------------------------------------------------------------------------
(* The risk gate *)

\* the layers whose veto condition holds for a signal in a state
ViolatedLayers(st, signal) ==
    {n \in 1..7 :
        \/ n = 1 /\ total_loss_exceeded(st)
        \/ n = 2 /\ is_blacklisted(st.blacklist, signal.symbol)
        \/ n = 3 /\ daily_loss_exceeded(st)
        \/ n = 4 /\ strategy_capital_exceeded(st, signal)
        \/ n = 5 /\ single_trade_exceeded(signal)
        \/ n = 6 /\ frequency_exceeded(st)
        \/ n = 7 /\ limit_reason(st, signal) # ""}

LayerReasons(n) ==
    CASE n = 1 -> {"total_loss"}
      [] n = 2 -> {"blacklist"}
      [] n = 3 -> {"daily_loss"}
      [] n = 4 -> {"strategy_capital"}
      [] n = 5 -> {"single_trade"}
      [] n = 6 -> {"frequency"}
      [] n = 7 -> {"limit_up", "limit_down"}

----------------------------------------------------------------------------
(* Anti-lookahead and save/restore *)

Prefix(q, k) == SubSeq(q, 1, k)

C7_RestoredBehavesAlike ==
    restored_at >= 0 =>
        \A i \in 1..Len(runA.outs) :
            (i > restored_at /\ i <= Len(runB.outs)) => runB.outs[i] = runA.outs[i]

----------------------------------------------------------------------------
(* Order validation *)

IsBuySignal(signal) == signal.kind = "action" /\ signal.action = "buy"

\* C11: every order process_bar returns with action buy has an amount that is
\* a positive multiple of 100, whatever amount the signal carries (any integer
\* or none at all).
C11_BuyAmountPositiveLot ==
    (last.out.kind = "order" /\ last.out.order.action = "buy") =>
        /\ last.out.order.amount > 0
        /\ last.out.order.amount % 100 = 0

\* C12: process_bar raises a validation error for every buy signal whose
\* amount is not a multiple of 100 (150 for one), and returns the buy order
\* for the amounts 100 and 200.
C12_OddLotRejected ==
    (IsBuySignal(last.signal) /\ last.signal.amount # NoAmount) =>
        LET n == last.signal.amount[1] IN
        /\ (n % 100 # 0) => last.out.kind = "ValueError"
        /\ (n \in {100, 200}) =>
              /\ last.out.kind = "order"
              /\ last.out.order.action = "buy"
              /\ last.out.order.amount = n

C12_Witness ==
    /\ IsBuySignal(last.signal)
    /\ last.signal.amount = <<150>>
    /\ last.out.kind = "ValueError"
    /\ \E d \in Dates : <<"X", d>> \in bought

----------------------------------------------------------------------------
(* Ledger conservation *)

\* cash right after trade j of the log was made
CashAfter(j) == IF j = Len(trades) THEN cash ELSE cash_log[j + 1]

\* C13: for an executed buy of amount a followed, with no other trade in
\* between, by an executed sell of the same amount, cash after the sell is
\* cash before the buy - buy commission - sell commission - stamp duty
\* + (sell execution price - buy execution price) * a.
C13_LedgerConservation ==
    \A i \in 1..(Len(trades) - 1) :
        (/\ trades[i].action = "buy"
         /\ trades[i + 1].action = "sell"
         /\ trades[i + 1].amount = trades[i].amount)
            => CashAfter(i + 1) =
                   cash_log[i] - trades[i].commission - trades[i + 1].commission
                       - trades[i + 1].tax
                       + (trades[i + 1].price - trades[i].price) * trades[i].amount

C13_Witness ==
    /\ Len(trades) = 2
    /\ trades[1].action = "buy"
    /\ trades[2].action = "sell"
    /\ trades[1].amount = 100
    /\ trades[2].amount = 100
    /\ trades[2].price > trades[1].price
    /\ trades[2].tax > 0
    /\ cash > initial_cash

----------------------------------------------------------------------------
(* The sandbox *)

\* the entry point is running and never returns by itself
NeverReturns ==
    /\ sandbox.pc = "running"
    /\ sandbox.phase = "call"
    /\ sandbox.source.call \in Loops

TimeoutReported ==
    /\ sandbox.pc = "raised"
    /\ sandbox.type = "ExecutionError"
    /\ sandbox.text = "timeout"

\* C14: execute with timeout t on a strategy whose entry point never returns
\* terminates and reports the timeout error (ExecutionError with the timeout
\* message) instead of hanging.
C14_TimeoutEndsEndlessCall == NeverReturns ~> TimeoutReported

\* the evaluated code raised (not the alarm handler, not execute itself)
CodeRaised ==
    /\ sandbox.pc \in {"raised", "escaped"}
    /\ sandbox.raised # NoException
    /\ sandbox.raised # Exception("TimeoutError", "alarm")
    /\ sandbox.raised.type # "ExecutionError"

\* C15: an exception raised by the evaluated code (module body, __init__ or
\* entry point) reaches the caller only as ExecutionError carrying the
\* original message; no other exception type leaves execute.
C15_OnlyExecutionErrorLeaves ==
    CodeRaised =>
        /\ sandbox.pc = "raised"
        /\ sandbox.type = "ExecutionError"
        /\ sandbox.raised.msg # "" => sandbox.detail = sandbox.raised.msg

\* C16: code run by execute obtains no filesystem, network, process or
\* environment access through a name of its evaluation context.
C16_NoAmbientAccess == sandbox.accessed = {}

\* C17: two independently constructed adapters share no mutable state: a
\* process_bar call on the second never changes the first one's strategy
\* attributes, lock table or current_date, the second having been restored
\* from the first one's get_state() output.
C17_AdaptersIsolated ==
    [][(restored_at >= 0 /\ runB' # runB) =>
          UNCHANGED <<t1_locks, current_date, attrs>>]_vars

----------------------------------------------------------------------------
(* The static checker *)

\* the checks that fail on a source, each taken by itself
FailingChecks(src, m) ==
    {n \in 1..5 :
        \/ n = 1 /\ ~parses(src)
        \/ n = 2 /\ \E i \in DOMAIN src :
                       src[i].kind \in {"import", "from"} /\ src[i].name \in DANGEROUS_MODULES
        \/ n = 3 /\ \E i \in DOMAIN src :
                       src[i].kind = "call" /\ src[i].name \in DANGEROUS_FUNCTIONS
        \/ n = 4 /\ ~\E i \in DOMAIN src :
                       src[i].kind = "class" /\ src[i].name \in REQUIRED_METHODS
        \/ n = 5 /\ Cardinality({i \in DOMAIN src : src[i].kind = "if"}) + 1 > m}

\* C18: check runs syntax, denylisted imports, denylisted calls, required
\* entry point, complexity ceiling in that order and returns at the first
\* failing one: safe holds exactly when none fails, and otherwise the report
\* is that of the first failing check.
C18_FirstFailingCheckReported ==
    checker.max_complexity # 0 =>
        LET f == FailingChecks(checker.source, checker.max_complexity) IN
        /\ checker.report.safe <=> f = {}
        /\ checker.report.safe => checker.report.check = 0
        /\ f # {} => /\ checker.report.check \in f
                     /\ \A n \in f : checker.report.check <= n

C18_Witness ==
    /\ checker.max_complexity # 0
    /\ {2, 3, 4, 5} \subseteq FailingChecks(checker.source, checker.max_complexity)
    /\ checker.report.check = 2
    /\ checker.report.names = <<"os">>

----------------------------------------------------------------------------
(* Risk layers 1 and 7 *)

Validated == risk_last # NoValidation

\* C19: while (total_capital - current_account_value) / total_capital exceeds
\* max_total_loss_rate, validate returns passed = false with the total-capital
\* stop-loss reason for every signal, whatever its action, symbol, size or
\* price.
C19_TotalLossVetoesAll ==
    (/\ Validated
     /\ (total_capital - risk_last.state.current_account_value) * 100
            > max_total_loss_rate * total_capital)
        => /\ ~risk_last.result.passed
           /\ risk_last.result.reason = "total_loss"

C19_Witness ==
    /\ Validated
    /\ risk_last.state.current_account_value = 89000
    /\ risk_last.state.daily_start_value = 98000
    /\ risk_last.signal.action = "sell"
    /\ risk_last.result.reason = "total_loss"

PrevClose == risk_last.state.prev_close_prices[risk_last.signal.symbol]

\* the price is at or above (at or below) the day's limit for the symbol
AtLimitUp ==
    risk_last.signal.price * 100
        >= PrevClose * (100 + limit_rate(get_stock_type(risk_last.signal.symbol)))

AtLimitDown ==
    risk_last.signal.price * 100
        <= PrevClose * (100 - limit_rate(get_stock_type(risk_last.signal.symbol)))

EarlierLayerViolated ==
    ViolatedLayers(risk_last.state, risk_last.signal) \cap 1..6 # {}

\* C20: with a previous close recorded for the symbol, validate vetoes a buy
\* priced at or above the limit-up threshold and a sell priced at or below the
\* limit-down threshold (by layer 7 when no earlier layer vetoes), and layer 7
\* never vetoes a sell at a limit-up price or a buy at a limit-down price.
C20_LimitIsDirectional ==
    (Validated /\ risk_last.signal.symbol \in DOMAIN risk_last.state.prev_close_prices)
        => /\ (risk_last.signal.action = "buy" /\ AtLimitUp) =>
                 /\ ~risk_last.result.passed
                 /\ ~EarlierLayerViolated =>
                       risk_last.result.layer = 7 /\ risk_last.result.reason = "limit_up"
           /\ (risk_last.signal.action = "sell" /\ AtLimitDown) =>
                 /\ ~risk_last.result.passed
                 /\ ~EarlierLayerViolated =>
                       risk_last.result.layer = 7 /\ risk_last.result.reason = "limit_down"
           /\ (risk_last.signal.action = "sell" /\ AtLimitUp) => risk_last.result.layer # 7
           /\ (risk_last.signal.action = "buy" /\ AtLimitDown) => risk_last.result.layer # 7

C20_Witness ==
    /\ Validated
    /\ risk_last.signal.symbol \in DOMAIN risk_last.state.prev_close_prices
    /\ risk_last.signal.action = "sell"
    /\ AtLimitUp
    /\ risk_last.result.passed

----------------------------------------------------------------------------
(* The trading manager *)

ManagerTrades == get_trades(manager.trades, 1)

\* C21: within any trailing one-hour window at most max_trades_per_hour
\* trades are executed through execute_trade: each executed trade is recorded
\* in the validator's recent-trade timestamps, and once the count in the
\* window reaches max_trades_per_hour layer 6 vetoes every further order.
C21_HourlyTradeLimit ==
    Cardinality({i \in DOMAIN ManagerTrades :
                    ManagerTrades[i].timestamp > now - Hour}) <= max_trades_per_hour

RECURSIVE Notional(_)
\* amount * price summed over the buys of a trade list
Notional(q) ==
    IF q = <<>> THEN 0
    ELSE (IF q[1].action = "buy" THEN q[1].amount * q[1].price ELSE 0)
         + Notional(Tail(q))

\* C22: over any sequence of buys executed through execute_trade for one
\* strategy, the cumulative notional admitted never exceeds
\* max_strategy_capital_rate * total_capital.
C22_StrategyCapitalCapped ==
    Notional(ManagerTrades) * 100 <= max_strategy_capital_rate * total_capital

\* C28: execute_trade appends a trade record only if validate returned
\* passed = true for the signal and the signal was auto-approved
\* (require_approval false and amount * price <= auto_approve_threshold);
\* otherwise the recorded trades are unchanged and executed is false.
C28_TradeOnlyWhenPassedAndApproved ==
    [][manager'.calls = manager.calls + 1 =>
          LET signal == manager'.last.signal
              admitted ==
                  /\ validate(CurrentRiskState, signal).passed
                  /\ ~manager.require_approval
                  /\ signal.amount * signal.price <= manager.auto_approve_threshold
          IN IF admitted
             THEN /\ manager'.last.result.executed
                  /\ Len(get_trades(manager'.trades, 1)) = Len(ManagerTrades) + 1
             ELSE /\ ~manager'.last.result.executed
                  /\ manager'.trades = manager.trades]_vars

C28_Witness ==
    /\ manager.calls = 2
    /\ Len(ManagerTrades) = 1
    /\ manager.last.signal.amount = 1500
    /\ manager.last.result.passed_risk_check
    /\ manager.last.result.require_approval
    /\ ~manager.last.result.executed

----------------------------------------------------------------------------
(* The strategy generator *)

\* the attempt the AI call gave o on did not produce a safe source
AttemptFailed(o) ==
    \/ o.kind \in {"AIError", "empty"}
    \/ ~check(o.code, generator.max_complexity).safe

\* C29: generate returns a result only if CodeSecurityChecker.check reported
\* the result's code safe; when the code of the last allowed attempt is
\* unsafe, generate raises SecurityError and returns nothing.
C29_OnlySafeCodeReturned ==
    /\ generator.pc = "returned" =>
          /\ check(generator.result, generator.max_complexity).safe
          /\ FailingChecks(generator.result, generator.max_complexity) = {}
    /\ (/\ generator.max_retries > 0
        /\ Len(generator.log) = generator.max_retries
        /\ generator.log[generator.max_retries].kind = "code"
        /\ AttemptFailed(generator.log[generator.max_retries])) =>
          /\ generator.pc = "raised"
          /\ generator.error = "SecurityError"
          /\ generator.result = <<>>

C29_Witness ==
    /\ generator.pc = "raised"
    /\ generator.error = "SecurityError"
    /\ generator.max_retries = 2
    /\ Len(generator.log) = 2
    /\ generator.log[2].code = <<Stmt("import", "os"), Stmt("class", "on_bar")>>

GenerateBounded ==
    /\ Len(generator.log) <= generator.max_retries
    /\ generator.pc = "returned" =>
          /\ generator.log # <<>>
          /\ ~AttemptFailed(generator.log[Len(generator.log)])
          /\ generator.result = generator.log[Len(generator.log)].code
          /\ \A i \in 1..(Len(generator.log) - 1) : AttemptFailed(generator.log[i])
    /\ generator.pc = "raised" =>
          /\ Len(generator.log) = generator.max_retries
          /\ \A i \in DOMAIN generator.log : AttemptFailed(generator.log[i])

----------------------------------------------------------------------------
(* The advisory risk score *)

\* C23: validate returns a risk_score in [0,100], and the score never causes
\* a veto: whenever none of the seven layer conditions holds, validate returns
\* passed = true whatever score has been accumulated.
C23_ScoreAdvisory ==
    Validated =>
        /\ risk_last.result.risk_score \in 0..100
        /\ ViolatedLayers(risk_last.state, risk_last.signal) = {} =>
              /\ risk_last.result.passed
              /\ risk_last.result.risk_score = risk_score_of(risk_last.state, risk_last.signal)

C23_Witness ==
    /\ Validated
    /\ ViolatedLayers(risk_last.state, risk_last.signal) = {}
    /\ risk_last.result.passed
    /\ risk_last.result.risk_score >= 50

\* a validator as RiskValidator(total_capital = 100000) leaves it: no loss,
\* nothing allocated, no recorded trade
FreshValidation ==
    /\ Validated
    /\ risk_last.state.current_account_value = total_capital
    /\ risk_last.state.daily_start_value = total_capital
    /\ risk_last.state.strategy_capitals = EmptyLocks
    /\ risk_last.state.trade_timestamps = <<>>
    /\ risk_last.signal.action = "buy"
    /\ risk_last.result.passed

NotionalPercent(n) == TradeValue(risk_last.signal) * 100 = n * total_capital

\* C24: on a fresh validator with default thresholds a passing buy gets
\* risk_score < 30 at a notional of 1% of capital, 30 <= risk_score < 70 at
\* 15%, and risk_score >= 70 at 19%.
C24_ScoreBands ==
    FreshValidation =>
        /\ NotionalPercent(1) => risk_last.result.risk_score < 30
        /\ NotionalPercent(15) =>
              risk_last.result.risk_score >= 30 /\ risk_last.result.risk_score < 70
        /\ NotionalPercent(19) => risk_last.result.risk_score >= 70

----------------------------------------------------------------------------
(* The run loop: suspension, reset, construction *)

\* C25: with market rules enabled a bar with volume = 0 never reaches the
\* strategy: run does not call process_bar for it and executes no trade on
\* it, so cash, positions and the trade log are the same before and after.
C25_SuspendedBarSkipped ==
    [][(idx' = idx + 1 /\ enable_china_rules /\ row'.volume = 0) =>
          /\ calls' = calls
          /\ UNCHANGED <<cash, positions, trades, t1_locks, current_date>>]_vars

C25_Witness ==
    /\ enable_china_rules
    /\ idx = 2
    /\ row.volume = 0
    /\ calls = 1
    /\ Len(trades) = 1

\* C26: run resets the ledger before processing bars: the second of two runs
\* on the same source and bars starts from cash = initial_cash, no position,
\* no trade and portfolio values [initial_cash], with a fresh adapter, and it
\* ends as the first one ended, with the same ledger and trade log.
C26_RunResetsLedger ==
    /\ (second_run /\ pc = "loop" /\ idx = 0) =>
          /\ cash = self_initial_cash
          /\ positions = EmptyLocks
          /\ trades = <<>>
          /\ portfolio_values = <<self_initial_cash>>
          /\ t1_locks = EmptyLocks
          /\ current_date = NoDate
    /\ (second_run /\ pc \in {"done", "raised"}) =>
          /\ pc = first_run.pc
          /\ cash = first_run.cash
          /\ positions = first_run.positions
          /\ trades = first_run.trades
          /\ portfolio_values = first_run.portfolio_values

C26_Witness ==
    /\ second_run
    /\ pc = "done"
    /\ Len(first_run.trades) = 1
    /\ first_run.positions # EmptyLocks
    /\ trades = first_run.trades

\* C27: constructing a BacktestEngine with a non-positive initial_cash is
\* rejected: every engine on which run can be called has initial_cash > 0.
C27_NonPositiveCashRejected ==
    pc \in {"idle", "loop", "done", "raised"} => self_initial_cash > 0

----------------------------------------------------------------------------
(* The lock table and the ledger after each call *)

\* C33: for bars fed in non-decreasing date order, after every process_bar
\* call every entry of the lock table has lock_date equal to the adapter's
\* current_date: no lock created on an earlier date survives a date change.
C33_LocksDatedToday ==
    calls > 0 => \A s \in DOMAIN t1_locks : t1_locks[s].lock_date = current_date

C33_Witness ==
    /\ calls = 3
    /\ current_date = 2
    /\ <<"X", 1>> \in bought
    /\ "X" \notin DOMAIN t1_locks
    /\ "Y" \in DOMAIN t1_locks

\* C34: with initial_cash > 0 and non-negative rates, ledger cash is >= 0
\* after every executed buy and every executed sell.
C34_CashNonNegative ==
    (self_initial_cash > 0 /\ trades # <<>>) => cash >= 0

\* C35: every trade appended to the trade log by _execute_trade has
\* amount > 0: a signal whose amount is zero or missing changes neither cash
\* nor positions nor the trade log.
C35_TradeAmountsPositive ==
    \A i \in DOMAIN trades : trades[i].amount > 0

\* C36: when process_bar raises the lot-size validation error for a buy
\* signal, no lock is created or changed: the lock table after the failed
\* call equals the lock table that the date update of that call produced.
C36_FailedBuyLeavesLocks ==
    (calls > 0 /\ last.out.kind = "ValueError") => t1_locks = last.locks_updated

C36_Witness ==
    /\ last.out.kind = "ValueError"
    /\ IsBuySignal(last.signal)
    /\ last.signal.symbol = "X"
    /\ "X" \in DOMAIN t1_locks
    /\ t1_locks["X"].amount = 100

\* C38: execute leaves no timer pending: on every exit path the alarm armed
\* at entry is cancelled before execute returns or raises.
C38_NoAlarmLeftPending ==
    sandbox.pc \in {"returned", "raised", "escaped"} => sandbox.alarm = 0

----------------------------------------------------------------------------
(* validate as a query *)

\* C37: validate is read-only: it changes none of current_account_value,
\* daily_start_value, strategy_capitals, prev_close_prices, trade_timestamps
\* or the blacklist, so validating the same signal again in the state it
\* leaves, at the same time, returns the same result.
C37_ValidateReadOnly ==
    [][risk_last' # NoValidation =>
          /\ UNCHANGED <<current_account_value, daily_start_value, strategy_capitals,
                         prev_close_prices, trade_timestamps, blacklist>>
          /\ validate(CurrentRiskState', risk_last'.signal) = risk_last'.result]_vars

C37_Witness ==
    /\ Validated
    /\ risk_last.result.passed
    /\ risk_last.state = CurrentRiskState
    /\ \E i \in DOMAIN trade_timestamps : ~(trade_timestamps[i] > now - Hour)

----------------------------------------------------------------------------
(* Shadow accounts *)

\* C31: promote_to_live sets an account's status to promoted and returns True
\* only when the account's score >= 35 and its observation_days >= 14;
\* otherwise it returns False and leaves the account's status unchanged.
C31_PromotionNeedsScoreAndDays ==
    [][(shadow'.calls = shadow.calls + 1 /\ shadow'.last.op = "promote") =>
          LET id == shadow'.last.id
              eligible == /\ id \in DOMAIN shadow.accounts
                          /\ shadow.accounts[id].score >= 3500
                          /\ shadow.accounts[id].observation_days >= 14
          IN IF eligible
             THEN /\ shadow'.last.result
                  /\ shadow'.accounts[id].status = "promoted"
             ELSE /\ ~shadow'.last.result
                  /\ shadow'.accounts = shadow.accounts]_vars

C31_Witness ==
    /\ shadow.last.op = "promote"
    /\ ~shadow.last.result
    /\ shadow.last.id \in DOMAIN shadow.accounts
    /\ shadow.accounts[shadow.last.id].score >= 3500
    /\ shadow.accounts[shadow.last.id].observation_days = 7
    /\ shadow.accounts[shadow.last.id].status = "observing"

\* C32: for every metrics dictionary passed to update_account_metrics,
\* calculate_score returns a score between 0 and 100 inclusive.
C32_ScoreInRange ==
    \A id \in DOMAIN shadow.accounts :
        /\ shadow.accounts[id].score >= 0
        /\ shadow.accounts[id].score <= 10000

\* C39: a terminated status is final: once terminate_account has set it, no
\* later update_account_metrics, update_observation_days or promote_to_live
\* call changes the status to promoted or observing.
C39_TerminatedIsFinal ==
    \A id \in shadow.terminated : shadow.accounts[id].status = "terminated"

----------------------------------------------------------------------------
(* Auto trading switched off *)

\* C40: while auto trading is not running (before start_auto_trading or after
\* stop_auto_trading), process_bar has no effect: the strategy's on_bar is
\* not invoked, the adapter's current_date and lock table are unchanged and
\* no trade is recorded.
C40_StoppedManagerIgnoresBars ==
    [][(manager'.bars = manager.bars + 1 /\ ~manager.is_running) =>
          /\ calls' = calls
          /\ UNCHANGED <<current_date, t1_locks>>
          /\ manager'.trades = manager.trades]_vars

C40_Witness ==
    /\ manager.bar_outcome = "not_running"
    /\ ~manager.is_running
    /\ 1 \in manager.strategies
    /\ calls = 1
    /\ Len(get_trades(manager.trades, 1)) = 1
    /\ "SH600000" \in DOMAIN t1_locks

====
